---------------------------- MODULE Spec2Model ----------------------------
(***************************************************************************)
(* State-machine model of the ark-sidecar: the four run modes (lsp,        *)
(* execute, watch, check), the watch-mode multiplexer loop over stdin,     *)
(* IOPub and shell, and the request-id correlator (pending_comm_ids).      *)
(* Source: src/ark-sidecar/src/{main,handlers,connection,logging,types,    *)
(* commands}.rs                                                            *)
(* The mode drivers are those of handlers.rs and connection.rs (one        *)
(* select! loop over stdin, IOPub and shell); main.rs, which also keeps an *)
(* earlier monolithic copy of them, is followed for main() and run().      *)
(* The pure functions (the comm-port locator, the request-id functions and *)
(* the command-line parser) are also run on their own, in FunctionSpec.    *)
(***************************************************************************)
EXTENDS Integers, Sequences, FiniteSets, TLC

(***************************************************************************)
(* Bounds of the model (not program constants).                            *)
(***************************************************************************)
\* wakes of a wait loop (watch multiplexer, lsp/execute/check waits) per run
MaxSteps == 3
\* largest --timeout-ms value explored, in abstract clock ticks
MaxTimeout == 1
\* groups of command-line arguments (a flag, or a flag and its value) per argv
MaxArgs == 3

(***************************************************************************)
(* JSON values (serde_json::Value) as tagged records.  Absent stands for   *)
(* Map::get returning None.                                                *)
(***************************************************************************)
Absent == [t |-> "absent"]
JNull == [t |-> "null"]
JStr(x) == [t |-> "str", s |-> x]
JNum(x) == [t |-> "num", n |-> x]
\* a Number holding an f64 (it has a fraction or an exponent); x is its text
JFloat(x) == [t |-> "float", s |-> x]
JBool(x) == [t |-> "bool", b |-> x]
JArr(x) == [t |-> "arr", a |-> x]
\* an object (serde_json::Map) is the sequence of its entries, in insertion order
JObj(x) == [t |-> "obj", o |-> x]
Pair(k, v) == [k |-> k, v |-> v]

\* Option<T> as a sequence of length at most one
None == <<>>
Some(x) == <<x>>
IsSome(o) == o # <<>>

\* Value::as_str / Value::as_object / Option::is_some on Map::get
as_str(v) == IF v.t = "str" THEN Some(v.s) ELSE None
as_object(v) == IF v.t = "obj" THEN Some(v.o) ELSE None
is_some(v) == v.t # "absent"

\* Map::get: the value under `key`, Absent when the map has no such key
RECURSIVE Get(_, _)
Get(map, key) ==
    IF map = <<>> THEN Absent
    ELSE IF Head(map).k = key THEN Head(map).v
    ELSE Get(Tail(map), key)

\* Map::insert: replaces the value of an existing key, else adds the entry
Insert(map, key, value) ==
    IF is_some(Get(map, key))
    THEN [i \in 1..Len(map) |-> IF map[i].k = key THEN Pair(key, value) ELSE map[i]]
    ELSE Append(map, Pair(key, value))

\* A comm data object {<rest>: [], "id": id, "method": method}, each entry left
\* out when its value is Absent (rest = "": no such entry).
Data(id, method, rest) ==
    SelectSeq(<< Pair(rest, IF rest = "" THEN Absent ELSE JArr(<<>>)),
                 Pair("id", id), Pair("method", method) >>,
              LAMBDA p : is_some(p.v))
EmptyData == <<>>

(***************************************************************************)
(* Comm target names, src/ark-sidecar/src/types.rs                         *)
(***************************************************************************)
LSP_COMM_TARGET == "positron.lsp"
PLOT_COMM_TARGET == "positron.plot"
UI_COMM_TARGET == "positron.ui"
HELP_COMM_TARGET == "positron.help"
VARIABLES_COMM_TARGET == "positron.variables"
DATA_EXPLORER_COMM_TARGET == "positron.dataExplorer"
LOG_RELOAD_COMMAND == "reload_log_level"
SUPPORTED_SIGNATURE_SCHEME == "hmac-sha256"
DEFAULT_TIMEOUT_MS == 15000

VARIABLES
    preserve_order, \* build: serde_json's Map keeps insertion order (else key order)
    call,          \* function-level runs: the function applied and its argument
    ret,           \* function-level runs: None, then Some(what the function returned)
    signature_scheme, \* ConnectionInfo.signature_scheme of the connection file
    mode,          \* Args.mode: "lsp" | "execute" | "watch" | "check"
    wait_for_idle, \* Args.wait_for_idle
    timeout_ms,    \* Args.timeout_ms
    pc,            \* position of the run
    exitCode,      \* -1 while running, then the process exit code
    stdout,        \* sequence of event lines printed
    shellSent,     \* sequence of messages successfully sent on shell
    pending_comm_ids, \* HashMap<String,String>: outbound msg_id -> request id
    nextUuid,      \* source of fresh Uuid::new_v4 values
    myId,          \* lsp: comm_id of the comm_open; execute/check: msg_id awaited
    now,           \* clock
    deadline,      \* deadline of the current deadlined wait
    steps,         \* wakes of the current wait loop so far
    logFilter,     \* the reloadable log filter
    lastIn,        \* history: the input the latest wake handled
    everPending,   \* history: msg_ids ever inserted into pending_comm_ids
    replies,       \* history: parent and has-id of each inbound comm_msg handled
    removals       \* history: msg_ids removed from pending_comm_ids, in order

\* the variables only a function-level run changes, and those of a run of main()
pureVars == <<preserve_order, call, ret>>
runVars == <<signature_scheme, mode, wait_for_idle, timeout_ms, pc, exitCode, stdout,
             shellSent, pending_comm_ids, nextUuid, myId, now, deadline, steps,
             logFilter, lastIn, everPending, replies, removals>>
vars == <<preserve_order, call, ret,
          signature_scheme, mode, wait_for_idle, timeout_ms, pc, exitCode, stdout, shellSent,
          pending_comm_ids, nextUuid, myId, now, deadline, steps, logFilter,
          lastIn, everPending, replies, removals>>


(***************************************************************************)
(* Messages.  An inbound message (what Connection::read yields on success) *)
(* carries its content type, parent_header.msg_id and the content fields   *)
(* the sidecar reads; an outbound one its header.msg_id and content.       *)
(***************************************************************************)
InMsg(type, parent, comm_id, target_name, data, media, display_id, state) ==
    [type |-> type, parent |-> parent, comm_id |-> comm_id,
     target_name |-> target_name, data |-> data, media |-> media,
     display_id |-> display_id, state |-> state]

InCommMsg(parent, comm_id, data) ==
    InMsg("comm_msg", parent, comm_id, "", data, <<>>, None, "")
InCommOpen(parent, comm_id, target_name, data) ==
    InMsg("comm_open", parent, comm_id, target_name, data, <<>>, None, "")
InCommClose(parent, comm_id) ==
    InMsg("comm_close", parent, comm_id, "", EmptyData, <<>>, None, "")
InStatus(parent, state) ==
    InMsg("status", parent, "", "", EmptyData, <<>>, None, state)
InDisplay(type, parent, media, display_id) ==
    InMsg(type, parent, "", "", EmptyData, media, display_id, "")
InOther(type, parent) ==
    InMsg(type, parent, "", "", EmptyData, <<>>, None, "")

OutMsg(type, msg_id, comm_id, target_name, data) ==
    [type |-> type, msg_id |-> msg_id, comm_id |-> comm_id,
     target_name |-> target_name, data |-> data]

\* Result<JupyterMessage> of Connection::read
Ok(m) == [ok |-> TRUE, msg |-> m]
\* an error whose Debug text names `kind`, the message type and the missing field
Err(kind, msg_type, missing) ==
    [ok |-> FALSE, kind |-> kind, msg_type |-> msg_type, missing |-> missing]
SignatureMismatch == Err("signature", "", "")
SocketError == Err("socket", "", "")
CommCloseNoData == Err("decode", "comm_close", "data")
CommMsgNoData == Err("decode", "comm_msg", "data")
KernelInfoReplyNoField == Err("decode", "kernel_info_reply", "protocol_version")

(***************************************************************************)
(* Stdout events (json!{...} printed by println!).                         *)
(***************************************************************************)
EvError(message) == [event |-> "error", message |-> message]
EvAlive == [event |-> "alive"]
\* mutant of EvLspPort: the port is announced under the liveness tag
EvLspPort_as_alive(port) == [event |-> "alive", port |-> port]
EvLspPort(port) == [event |-> "lsp_port", port |-> port]
EvOpened(event, comm_id, target_name) ==
    [event |-> event, comm_id |-> comm_id, target_name |-> target_name]
EvCommOpen(event, comm_id, target_name, data) ==
    [event |-> event, comm_id |-> comm_id, target_name |-> target_name, data |-> data]
EvComm(event, comm_id, data) == [event |-> event, comm_id |-> comm_id, data |-> data]
EvCommClose(comm_id) == [event |-> "comm_close", comm_id |-> comm_id]
EvStatus(status) == [event |-> "kernel_status", status |-> status]
EvPlot(event, data, display_id) ==
    [event |-> event, data |-> data, display_id |-> display_id]

(***************************************************************************)
(* The request-id correlator, handlers.rs                                  *)
(***************************************************************************)
\* HashMap::insert / HashMap::remove on pending_comm_ids
MapInsert(map, k, v) == [x \in DOMAIN map \cup {k} |-> IF x = k THEN v ELSE map[x]]
MapRemove(map, k) == [x \in DOMAIN map \ {k} |-> map[x]]
EmptyMap == [x \in {} |-> ""]

\* mutant of extract_request_id: a number id is not recorded
extract_request_id_strings_only(data) ==
    LET id == Get(data, "id")
    IN  IF id.t = "str" THEN Some(id.s) ELSE None

\* fn extract_request_id(data) -> Option<String>
extract_request_id(data) ==
    LET id == Get(data, "id")
    IN  CASE id.t = "str" -> Some(id.s)
          [] id.t = "num" -> Some(ToString(id.n))
          [] id.t = "float" -> Some(id.s)
          [] OTHER -> None

\* mutant of attach_comm_reply_id: a reply carrying its own id gets the recorded
\* request id written over it
attach_comm_reply_id_overwrite(data, parent_msg_id, pending) ==
    IF ~IsSome(parent_msg_id) THEN [data |-> data, pending |-> pending]
    ELSE IF parent_msg_id[1] \notin DOMAIN pending
    THEN [data |-> data, pending |-> pending]
    ELSE [data |-> Insert(data, "id", JStr(pending[parent_msg_id[1]])),
          pending |-> MapRemove(pending, parent_msg_id[1])]

\* mutant of attach_comm_reply_id: the table is looked up (get), never emptied
attach_comm_reply_id_keep(data, parent_msg_id, pending) ==
    IF is_some(Get(data, "id")) \/ ~IsSome(parent_msg_id)
    THEN [data |-> data, pending |-> pending]
    ELSE IF parent_msg_id[1] \notin DOMAIN pending
    THEN [data |-> data, pending |-> pending]
    ELSE [data |-> Insert(data, "id", JStr(pending[parent_msg_id[1]])),
          pending |-> pending]

\* mutant of attach_comm_reply_id: a message whose parent has no entry is given
\* the parent's msg_id as its id
attach_comm_reply_id_parent_as_id(data, parent_msg_id, pending) ==
    IF is_some(Get(data, "id"))
    THEN [data |-> data,
          pending |-> IF IsSome(parent_msg_id)
                      THEN MapRemove(pending, parent_msg_id[1])
                      ELSE pending]
    ELSE IF ~IsSome(parent_msg_id)
    THEN [data |-> data, pending |-> pending]
    ELSE IF parent_msg_id[1] \notin DOMAIN pending
    THEN [data |-> Insert(data, "id", JStr(ToString(parent_msg_id[1]))),
          pending |-> pending]
    ELSE [data |-> Insert(data, "id", JStr(pending[parent_msg_id[1]])),
          pending |-> MapRemove(pending, parent_msg_id[1])]

\* fn attach_comm_reply_id(data, parent_msg_id, pending_comm_ids) -> data,
\* together with the table it leaves behind
attach_comm_reply_id(data, parent_msg_id, pending) ==
    IF is_some(Get(data, "id"))
    THEN [data |-> data,
          pending |-> IF IsSome(parent_msg_id)
                      THEN MapRemove(pending, parent_msg_id[1])
                      ELSE pending]
    ELSE IF ~IsSome(parent_msg_id)
    THEN [data |-> data, pending |-> pending]
    ELSE IF parent_msg_id[1] \notin DOMAIN pending
    THEN [data |-> data, pending |-> pending]
    ELSE [data |-> Insert(data, "id", JStr(pending[parent_msg_id[1]])),
          pending |-> MapRemove(pending, parent_msg_id[1])]

\* mutant of extract_png_data: the last PNG item is taken
extract_png_data_last(media) ==
    LET png == { i \in 1..Len(media) : media[i].mime = "png" }
    IN  IF png = {} THEN None
        ELSE Some(media[CHOOSE i \in png : \A j \in png : j <= i].d)

\* fn extract_png_data(media) -> Option<String>: the first PNG item
RECURSIVE extract_png_data(_)
extract_png_data(media) ==
    IF media = <<>> THEN None
    ELSE IF Head(media).mime = "png" THEN Some(Head(media).d)
    ELSE extract_png_data(Tail(media))

\* fn build_plot_payload(event, media, transient) -> Option<String>
build_plot_payload(event, media, display_id) ==
    LET png_data == extract_png_data(media)
    IN  IF IsSome(png_data) THEN Some(EvPlot(event, png_data[1], display_id)) ELSE None

\* mutant of is_comm_close_missing_data: no read error is let through
is_comm_close_missing_data_none(err) == FALSE

\* fn is_comm_close_missing_data(err) -> bool
is_comm_close_missing_data(err) ==
    err.msg_type = "comm_close" /\ err.missing = "data"


(***************************************************************************)
(* Inputs of the environment: stdin lines, read results of the two sockets *)
(***************************************************************************)
\* a stdin line: whether serde_json parses it, and json.get(...) of each key
Line(command, comm_id, target_name, data, log_level) ==
    [json |-> TRUE, command |-> command, comm_id |-> comm_id,
     target_name |-> target_name, data |-> data, log_level |-> log_level]
InvalidJson ==
    [json |-> FALSE, command |-> Absent, comm_id |-> Absent,
     target_name |-> Absent, data |-> Absent, log_level |-> Absent]

ReqData == { Data(JStr("r7"), JStr("list"), ""),
             Data(JNum(7), JStr("list"), ""),
             Data(JNull, JStr("list"), ""),
             Data(Absent, JStr("list"), "") }

StdinLines ==
    { InvalidJson,
      Line(Absent, Absent, Absent, Absent, Absent),
      Line(JNum(1), JStr("c1"), Absent, JObj(EmptyData), Absent),
      Line(JStr("bogus"), JStr("c1"), Absent, JObj(EmptyData), Absent),
      Line(JStr("comm_msg"), Absent, Absent, JObj(Data(JStr("r7"), Absent, "")), Absent),
      Line(JStr("comm_msg"), JStr("c1"), Absent, JStr("x"), Absent),
      Line(JStr("comm_msg"), JStr("c1"), Absent, Absent, Absent),
      Line(JStr("comm_open"), JStr("c2"), JStr(PLOT_COMM_TARGET), JObj(EmptyData), Absent),
      Line(JStr("comm_open"), JStr("c2"), Absent, JObj(EmptyData), Absent),
      Line(JStr("comm_open"), JStr("c2"), JStr(PLOT_COMM_TARGET), Absent, Absent),
      Line(JStr("comm_close"), JStr("c1"), Absent, Absent, Absent),
      Line(JStr("comm_close"), JStr("c1"), Absent, JObj(Data(Absent, Absent, "bye")), Absent),
      Line(JStr("comm_close"), JNum(1), Absent, Absent, Absent),
      Line(JStr(LOG_RELOAD_COMMAND), Absent, Absent, Absent, Absent),
      Line(JStr(LOG_RELOAD_COMMAND), Absent, Absent, Absent, JStr("debug")) }
    \cup { Line(JStr("comm_msg"), JStr("c1"), Absent, JObj(d), Absent) : d \in ReqData }

Range(seq) == { seq[i] : i \in 1..Len(seq) }

\* parent_header.msg_id of a kernel message: none, the id of a request of some
\* other client (0: fresh ids start at 1), or the id of a comm_msg this run sent
ParentChoices ==
    {None, Some(0)}
        \cup { Some(m.msg_id) : m \in { x \in Range(shellSent) : x.type = "comm_msg" } }

ReplyData == { Data(Absent, Absent, "result"), Data(JStr("k1"), Absent, "result") }

ReadErrors == { SignatureMismatch, SocketError, CommCloseNoData, CommMsgNoData }

PngMedia == << [mime |-> "html", d |-> "<p>"], [mime |-> "png", d |-> "AAAA"],
              [mime |-> "png", d |-> "BBBB"] >>
HtmlMedia == << [mime |-> "html", d |-> "<p>"] >>

\* data of a comm_open published by the kernel
OpenData == << Pair("title", JStr("t")) >>

\* target names of the comm_opens the kernel publishes: the six of types.rs and
\* one no client knows
OpenTargets ==
    { PLOT_COMM_TARGET, UI_COMM_TARGET, HELP_COMM_TARGET, VARIABLES_COMM_TARGET,
      DATA_EXPLORER_COMM_TARGET, LSP_COMM_TARGET, "other.target" }

WatchIopubReads ==
    { Ok(InCommMsg(p, "c1", d)) : p \in ParentChoices, d \in ReplyData }
    \cup { Ok(InCommMsg(p, "c1", Data(Absent, JStr("show_html_file"), ""))) :
             p \in ParentChoices \ {Some(0)} }
    \cup { Ok(InCommMsg(None, "c1", Data(Absent, JStr("show_help"), ""))),
           Ok(InCommMsg(None, "c1", Data(Absent, JNum(5), ""))),
           Ok(InCommClose(None, "c1")),
           Ok(InOther("stream", None)),
           Ok(InOther("unknown", None)) }
    \cup { Ok(InCommOpen(None, "c3", t, OpenData)) : t \in OpenTargets }
    \cup { Ok(InStatus(None, st)) : st \in {"idle", "busy", "starting", "restarting"} }
    \cup { Ok(InDisplay("display_data", None, PngMedia, Some("d1"))),
           Ok(InDisplay("display_data", None, HtmlMedia, None)),
           Ok(InDisplay("update_display_data", None, PngMedia, None)),
           Ok(InDisplay("update_display_data", None, HtmlMedia, Some("d1"))) }
    \cup ReadErrors

WatchShellReads ==
    { Ok(InCommMsg(p, "c1", d)) : p \in ParentChoices, d \in ReplyData }
    \cup { Ok(InCommMsg(None, "c1", Data(Absent, JStr("show_help"), ""))),
           Ok(InOther("kernel_info_reply", None)) }
    \cup ReadErrors


(***************************************************************************)
(* main(): a run that returns Err prints an error event and exits 1; a run *)
(* that returns Ok exits 0.                                                *)
(***************************************************************************)
Modes == {"lsp", "execute", "watch", "check"}

Uuid(n) == "u" \o ToString(n)

\* the schemes a connection file can name: the supported one and another
SignatureSchemes == {SUPPORTED_SIGNATURE_SCHEME, "hmac-sha1"}

\* no function-level call in a run of main()
NoCall == [fn |-> "none"]

\* the state from which a run of main() starts
RunInit ==
    /\ signature_scheme \in SignatureSchemes
    /\ mode \in Modes
    /\ wait_for_idle \in (IF mode = "execute" THEN BOOLEAN ELSE {FALSE})
    /\ timeout_ms \in (IF mode = "watch" THEN {MaxTimeout} ELSE 0..MaxTimeout)
    /\ pc = "start"
    /\ exitCode = -1
    /\ stdout = <<>>
    /\ shellSent = <<>>
    /\ pending_comm_ids = EmptyMap
    /\ nextUuid = 1
    /\ myId = None
    /\ now = 0
    /\ deadline = 0
    /\ steps = 0
    /\ logFilter = "env"
    /\ lastIn = [src |-> "none"]
    /\ everPending = {}
    /\ replies = <<>>
    /\ removals = <<>>

\* Only find_port iterates over a Map, and only lsp mode calls it: the order
\* of a Map's values is a choice of the build there and has no effect elsewhere.
Init ==
    /\ RunInit
    /\ preserve_order \in (IF mode = "lsp" THEN BOOLEAN ELSE {TRUE})
    /\ call = NoCall
    /\ ret = None

\* mutant of ExitErr: the error goes to stderr only
ExitErr_stderr_only(message) ==
    /\ stdout' = stdout
    /\ exitCode' = 1
    /\ pc' = "exited"

\* main.rs main(): Err(err) => println!(error event); exit(1)
ExitErr(message) ==
    /\ stdout' = Append(stdout, EvError(message))
    /\ exitCode' = 1
    /\ pc' = "exited"

\* main.rs main(): Ok(()) => return, exit code 0
ExitOk ==
    /\ exitCode' = 0
    /\ pc' = "exited"

(***************************************************************************)
(* run(): the connection file is vetted, then the mode's arguments         *)
(***************************************************************************)
\* mutant of SchemeSupported: every scheme is let through
SchemeSupported_any(scheme) == TRUE

\* connection.signature_scheme != SUPPORTED_SIGNATURE_SCHEME, negated
SchemeSupported(scheme) == scheme = SUPPORTED_SIGNATURE_SCHEME

\* run() up to the call of the mode's driver; decode_code can fail on the
\* base64 text of --code in execute mode
Run ==
    /\ pc = "start"
    /\ \E decoded \in (IF mode = "execute" THEN BOOLEAN ELSE {TRUE}) :
          IF ~SchemeSupported(signature_scheme)
          THEN ExitErr("Unsupported signature scheme: " \o signature_scheme)
          ELSE IF ~decoded
          THEN ExitErr("Failed to decode base64 code")
          ELSE /\ pc' = "connect"
               /\ UNCHANGED <<stdout, exitCode>>
    /\ UNCHANGED <<pureVars, signature_scheme, mode, wait_for_idle, timeout_ms, shellSent,
                   pending_comm_ids, nextUuid, myId, now, deadline, steps, logFilter,
                   lastIn, everPending, replies, removals>>

(***************************************************************************)
(* Opening the sockets: IOPub first, then shell (check: shell only).       *)
(***************************************************************************)
ConnectOutcomes ==
    IF mode = "check" THEN {"ok", "shell"} ELSE {"ok", "iopub", "shell"}

AfterConnect ==
    CASE mode = "watch" -> "open_help"
      [] OTHER -> "send"

Connect ==
    /\ pc = "connect"
    /\ \E outcome \in ConnectOutcomes :
          CASE outcome = "iopub" -> ExitErr("Failed to connect iopub")
            [] outcome = "shell" -> ExitErr("Failed to connect shell")
            [] OTHER -> /\ pc' = AfterConnect
                        /\ UNCHANGED <<stdout, exitCode>>
    /\ UNCHANGED <<pureVars, signature_scheme, mode, wait_for_idle, timeout_ms,
                   shellSent, pending_comm_ids,
                   nextUuid, myId, now, deadline, steps, logFilter, lastIn,
                   everPending, replies, removals>>

(***************************************************************************)
(* run_plot_watcher, start-up: four comm_opens, each announced on stdout   *)
(***************************************************************************)
\* mutant of OpenStages: the UI comm is opened before the help comm
OpenStages_ui_first ==
    [ open_help |-> [target |-> UI_COMM_TARGET, event |-> "ui_comm_open",
                     next |-> "open_ui", err |-> "Failed to send UI comm_open"],
      open_ui |-> [target |-> HELP_COMM_TARGET, event |-> "help_comm_open",
                   next |-> "open_variables", err |-> "Failed to send help comm_open"],
      open_variables |-> [target |-> VARIABLES_COMM_TARGET,
                          event |-> "variables_comm_open",
                          next |-> "open_data_explorer",
                          err |-> "Failed to send variables comm_open"],
      open_data_explorer |-> [target |-> DATA_EXPLORER_COMM_TARGET,
                              event |-> "data_explorer_comm_open",
                              next |-> "loop",
                              err |-> "Failed to send data explorer comm_open"] ]

OpenStages ==
    [ open_help |-> [target |-> HELP_COMM_TARGET, event |-> "help_comm_open",
                     next |-> "open_ui", err |-> "Failed to send help comm_open"],
      open_ui |-> [target |-> UI_COMM_TARGET, event |-> "ui_comm_open",
                   next |-> "open_variables", err |-> "Failed to send UI comm_open"],
      open_variables |-> [target |-> VARIABLES_COMM_TARGET,
                          event |-> "variables_comm_open",
                          next |-> "open_data_explorer",
                          err |-> "Failed to send variables comm_open"],
      open_data_explorer |-> [target |-> DATA_EXPLORER_COMM_TARGET,
                              event |-> "data_explorer_comm_open",
                              next |-> "loop",
                              err |-> "Failed to send data explorer comm_open"] ]

WatchOpen ==
    /\ mode = "watch"
    /\ pc \in DOMAIN OpenStages
    /\ LET stage == OpenStages[pc]
           comm_id == Uuid(nextUuid)
           msg_id == nextUuid + 1
       IN  /\ nextUuid' = nextUuid + 2
           /\ \E sendOk \in BOOLEAN :
                 /\ lastIn' = [src |-> "startup", send_ok |-> sendOk]
                 /\ IF sendOk
                    THEN /\ shellSent' = Append(shellSent,
                                 OutMsg("comm_open", msg_id, comm_id, stage.target, EmptyData))
                         /\ stdout' = Append(stdout, EvOpened(stage.event, comm_id, stage.target))
                         /\ pc' = stage.next
                         /\ UNCHANGED exitCode
                    ELSE /\ ExitErr(stage.err)
                         /\ UNCHANGED shellSent
    /\ UNCHANGED <<pureVars, signature_scheme, mode, wait_for_idle, timeout_ms,
                   pending_comm_ids, myId, now,
                   deadline, steps, logFilter, everPending, replies, removals>>


(***************************************************************************)
(* run_plot_watcher, the multiplexer loop: the stdin branch                *)
(***************************************************************************)
\* LogReloadHandle::reload_with_level / reload_from_env: the filter installed
reload_with_level(level) ==
    IF level \in {"error", "warn", "info", "debug", "trace"} THEN level ELSE "env"

Command(act, type, comm_id, target_name, data, request_id, filter) ==
    [act |-> act, type |-> type, comm_id |-> comm_id, target_name |-> target_name,
     data |-> data, request_id |-> request_id, filter |-> filter]
Skip == Command("skip", "", "", "", EmptyData, None, "")

\* mutant of CommMsgCommand: a missing or non-object data counts as the empty
\* object, as it does for comm_close
CommMsgCommand_lenient(line) ==
    LET comm_id == as_str(line.comm_id)
        data == as_object(line.data)
    IN  IF IsSome(comm_id)
        THEN Command("send", "comm_msg", comm_id[1], "",
                     IF IsSome(data) THEN data[1] ELSE EmptyData, None, "")
        ELSE Skip

\* command == "comm_msg": needs a string comm_id and an object data
CommMsgCommand(line) ==
    LET comm_id == as_str(line.comm_id)
        data == as_object(line.data)
    IN  IF IsSome(comm_id) /\ IsSome(data)
        THEN Command("send", "comm_msg", comm_id[1], "", data[1],
                     extract_request_id(data[1]), "")
        ELSE Skip

\* command == "comm_open": needs comm_id, target_name and an object data
CommOpenCommand(line) ==
    LET comm_id == as_str(line.comm_id)
        target_name == as_str(line.target_name)
        data == as_object(line.data)
    IN  IF IsSome(comm_id) /\ IsSome(target_name) /\ IsSome(data)
        THEN Command("send", "comm_open", comm_id[1], target_name[1], data[1], None, "")
        ELSE Skip

\* mutant of CommCloseCommand: a comm_close without an object data is dropped
CommCloseCommand_requires_data(line) ==
    LET comm_id == as_str(line.comm_id)
        data == as_object(line.data)
    IN  IF IsSome(comm_id) /\ IsSome(data)
        THEN Command("send", "comm_close", comm_id[1], "", data[1], None, "")
        ELSE Skip

\* command == "comm_close": needs comm_id; data defaults to the empty object
CommCloseCommand(line) ==
    LET comm_id == as_str(line.comm_id)
        data == as_object(line.data)
    IN  IF IsSome(comm_id)
        THEN Command("send", "comm_close", comm_id[1], "",
                     IF IsSome(data) THEN data[1] ELSE EmptyData, None, "")
        ELSE Skip

\* command == LOG_RELOAD_COMMAND: absent or "inherit" rebuilds from the environment
ReloadCommand(line) ==
    LET log_level == as_str(line.log_level)
    IN  Command("reload", "", "", "", EmptyData, None,
                IF log_level = None \/ log_level = Some("inherit")
                THEN "env"
                ELSE reload_with_level(log_level[1]))

\* what one stdin line makes the loop do: skip it, reload the log filter, or
\* send one message on shell (and, for comm_msg, which request id to record)
StdinCommand(line) ==
    IF ~line.json THEN Skip
    ELSE LET command == as_str(line.command)
         IN  IF ~IsSome(command) THEN Skip
             ELSE IF command[1] = LOG_RELOAD_COMMAND THEN ReloadCommand(line)
             ELSE IF command[1] = "comm_msg" THEN CommMsgCommand(line)
             ELSE IF command[1] = "comm_open" THEN CommOpenCommand(line)
             ELSE IF command[1] = "comm_close" THEN CommCloseCommand(line)
             ELSE Skip

\* mutant of RecordPending: the request id is recorded whether or not the send
\* succeeded
RecordPending_unconditional(pending, c, msg_id, sendOk) ==
    IF IsSome(c.request_id)
    THEN MapInsert(pending, msg_id, c.request_id[1])
    ELSE pending

\* mutant of RecordPending: the wake that sends does not enter the request id
RecordPending_not_in_wake(pending, c, msg_id, sendOk) == pending

\* the table after a send attempt of command c with header.msg_id = msg_id
RecordPending(pending, c, msg_id, sendOk) ==
    IF sendOk /\ IsSome(c.request_id)
    THEN MapInsert(pending, msg_id, c.request_id[1])
    ELSE pending

WatchStdinLine ==
    /\ mode = "watch"
    /\ pc = "loop"
    /\ steps < MaxSteps
    /\ \E line \in StdinLines, sendOk \in BOOLEAN :
          LET c == StdinCommand(line)
              msg_id == nextUuid
          IN  /\ (c.act # "send" => sendOk)
              /\ lastIn' = [src |-> "stdin", in |-> line, send_ok |-> sendOk]
              /\ logFilter' = IF c.act = "reload" THEN c.filter ELSE logFilter
              /\ nextUuid' = IF c.act = "send" THEN nextUuid + 1 ELSE nextUuid
              /\ shellSent' = IF c.act = "send" /\ sendOk
                              THEN Append(shellSent,
                                     OutMsg(c.type, msg_id, c.comm_id, c.target_name, c.data))
                              ELSE shellSent
              /\ pending_comm_ids' = IF c.act = "send"
                                     THEN RecordPending(pending_comm_ids, c, msg_id, sendOk)
                                     ELSE pending_comm_ids
              /\ everPending' = everPending \cup
                                  (DOMAIN pending_comm_ids' \ DOMAIN pending_comm_ids)
    /\ steps' = steps + 1
    /\ UNCHANGED <<pureVars, signature_scheme, mode, wait_for_idle, timeout_ms,
                   pc, exitCode, stdout, myId,
                   now, deadline, replies, removals>>

\* mutant of WatchStdinEof: EOF ends only the reading of stdin, the loop goes on
WatchStdinEof_reader_only ==
    /\ mode = "watch"
    /\ pc = "loop"
    /\ lastIn' = [src |-> "stdin_eof"]
    /\ UNCHANGED <<pureVars, signature_scheme, mode, wait_for_idle, timeout_ms,
                   pc, exitCode, stdout, shellSent,
                   pending_comm_ids, nextUuid, myId, now, deadline, steps,
                   logFilter, everPending, replies, removals>>

\* mutant of WatchStdinEof: the help comm opened at start-up is closed on EOF
WatchStdinEof_closing ==
    /\ mode = "watch"
    /\ pc = "loop"
    /\ lastIn' = [src |-> "stdin_eof"]
    /\ shellSent' = Append(shellSent,
                           OutMsg("comm_close", nextUuid, shellSent[1].comm_id, "",
                                  EmptyData))
    /\ nextUuid' = nextUuid + 1
    /\ ExitOk
    /\ UNCHANGED <<pureVars, signature_scheme, mode, wait_for_idle, timeout_ms, stdout,
                   pending_comm_ids, myId, now, deadline, steps, logFilter,
                   everPending, replies, removals>>

\* Ok(None) => break Ok(())
WatchStdinEof ==
    /\ mode = "watch"
    /\ pc = "loop"
    /\ lastIn' = [src |-> "stdin_eof"]
    /\ ExitOk
    /\ UNCHANGED <<pureVars, signature_scheme, mode, wait_for_idle, timeout_ms, stdout, shellSent,
                   pending_comm_ids, nextUuid, myId, now, deadline, steps,
                   logFilter, everPending, replies, removals>>

\* mutant of WatchStdinErr: the read error is returned to main
WatchStdinErr_fatal ==
    /\ mode = "watch"
    /\ pc = "loop"
    /\ lastIn' = [src |-> "stdin_err"]
    /\ ExitErr("Error reading stdin")
    /\ UNCHANGED <<pureVars, signature_scheme, mode, wait_for_idle, timeout_ms, shellSent,
                   pending_comm_ids, nextUuid, myId, now, deadline, steps,
                   logFilter, everPending, replies, removals>>

\* Err(e) => { info!("Error reading stdin"); break Ok(()) }
WatchStdinErr ==
    /\ mode = "watch"
    /\ pc = "loop"
    /\ lastIn' = [src |-> "stdin_err"]
    /\ ExitOk
    /\ UNCHANGED <<pureVars, signature_scheme, mode, wait_for_idle, timeout_ms, stdout, shellSent,
                   pending_comm_ids, nextUuid, myId, now, deadline, steps,
                   logFilter, everPending, replies, removals>>


(***************************************************************************)
(* run_plot_watcher, the multiplexer loop: the IOPub and shell branches    *)
(***************************************************************************)
Result(payload, pending) == [payload |-> payload, pending |-> pending]

\* mutant of StreamPayload: a stream message yields a url event
StreamPayload_httpgd_url(message) ==
    Some([event |-> "httpgd_url", url |-> ""])

\* JupyterMessageContent::StreamContent(_) => None
StreamPayload(message) == None

\* mutant of CommOpenEvent: only the plot and UI targets are announced
CommOpenEvent_plot_ui_only(target_name) ==
    CASE target_name = PLOT_COMM_TARGET -> Some("comm_open")
      [] target_name = UI_COMM_TARGET -> Some("ui_comm_open")
      [] OTHER -> None

\* comm_open on IOPub: the event tag of a target name, if any
CommOpenEvent(target_name) ==
    CASE target_name = PLOT_COMM_TARGET -> Some("comm_open")
      [] target_name = UI_COMM_TARGET -> Some("ui_comm_open")
      [] target_name = HELP_COMM_TARGET -> Some("help_comm_open")
      [] target_name = VARIABLES_COMM_TARGET -> Some("variables_comm_open")
      [] target_name = DATA_EXPLORER_COMM_TARGET -> Some("data_explorer_comm_open")
      [] OTHER -> None

\* mutant of CommMsgEvent: show_help gets no event of its own
CommMsgEvent_html_only(data) ==
    IF as_str(Get(data, "method")) = Some("show_html_file")
    THEN "show_html_file"
    ELSE "comm_msg"

\* comm_msg on IOPub: the event tag chosen from data.method
CommMsgEvent(data) ==
    LET method == as_str(Get(data, "method"))
    IN  IF method = Some("show_html_file") THEN "show_html_file"
        ELSE IF method = Some("show_help") THEN "show_help"
        ELSE "comm_msg"

\* ExecutionState => status string
StatusString(state) ==
    IF state \in {"idle", "busy", "starting"} THEN state ELSE "unknown"

\* the match on message.content of an IOPub message: the payload printed (if
\* any) and the pending table left behind
IopubPayload(message, pending) ==
    CASE message.type = "display_data" ->
            Result(build_plot_payload("display_data", message.media, message.display_id),
                   pending)
      [] message.type = "update_display_data" ->
            Result(build_plot_payload("update_display_data", message.media,
                                      message.display_id), pending)
      [] message.type = "stream" -> Result(StreamPayload(message), pending)
      [] message.type = "comm_open" ->
            LET event == CommOpenEvent(message.target_name)
            IN  Result(IF IsSome(event)
                       THEN Some(EvCommOpen(event[1], message.comm_id,
                                            message.target_name, message.data))
                       ELSE None, pending)
      [] message.type = "comm_msg" ->
            LET r == attach_comm_reply_id(message.data, message.parent, pending)
            IN  Result(Some(EvComm(CommMsgEvent(r.data), message.comm_id, r.data)),
                       r.pending)
      [] message.type = "comm_close" ->
            Result(Some(EvCommClose(message.comm_id)), pending)
      [] message.type = "status" ->
            Result(Some(EvStatus(StatusString(message.state))), pending)
      [] OTHER -> Result(None, pending)

\* mutant of ShellPayload: the event tag is chosen from data.method, as on IOPub
ShellPayload_by_method(message, pending) ==
    IF message.type = "comm_msg"
    THEN LET r == attach_comm_reply_id(message.data, message.parent, pending)
         IN  Result(Some(EvComm(CommMsgEvent(r.data), message.comm_id, r.data)),
                    r.pending)
    ELSE Result(None, pending)

\* the shell branch attends to comm_msg only, always as a generic comm_msg
ShellPayload(message, pending) ==
    IF message.type = "comm_msg"
    THEN LET r == attach_comm_reply_id(message.data, message.parent, pending)
         IN  Result(Some(EvComm("comm_msg", message.comm_id, r.data)), r.pending)
    ELSE Result(None, pending)

\* history: the inbound comm_msgs handled that carry a parent_header
NoteReply(res) ==
    IF res.ok /\ res.msg.type = "comm_msg" /\ IsSome(res.msg.parent)
    THEN Append(replies, [parent |-> res.msg.parent[1],
                          has_id |-> is_some(Get(res.msg.data, "id"))])
    ELSE replies

\* history: the entry (at most one per wake) that left the table
NoteRemoval(before, after) ==
    IF DOMAIN before \subseteq DOMAIN after
    THEN removals
    ELSE Append(removals, CHOOSE m \in DOMAIN before \ DOMAIN after : TRUE)

\* mutant of Emit: the line is put before the lines printed so far
Emit_first(payload) == IF IsSome(payload) THEN <<payload[1]>> \o stdout ELSE stdout

\* if let Some(payload) = payload { println!("{payload}") }
Emit(payload) == IF IsSome(payload) THEN Append(stdout, payload[1]) ELSE stdout

WatchIopub ==
    /\ mode = "watch"
    /\ pc = "loop"
    /\ steps < MaxSteps
    /\ \E res \in WatchIopubReads :
          /\ lastIn' = [src |-> "iopub", in |-> res]
          /\ replies' = NoteReply(res)
          /\ IF res.ok
             THEN LET r == IopubPayload(res.msg, pending_comm_ids)
                  IN  /\ stdout' = Emit(r.payload)
                      /\ pending_comm_ids' = r.pending
                      /\ UNCHANGED <<pc, exitCode>>
             ELSE IF is_comm_close_missing_data(res)
             THEN UNCHANGED <<stdout, pending_comm_ids, pc, exitCode>>
             ELSE /\ ExitErr("Failed to read iopub message")
                  /\ UNCHANGED pending_comm_ids
          /\ removals' = NoteRemoval(pending_comm_ids, pending_comm_ids')
    /\ steps' = steps + 1
    /\ UNCHANGED <<pureVars, signature_scheme, mode, wait_for_idle, timeout_ms,
                   shellSent, nextUuid, myId,
                   now, deadline, logFilter, everPending>>

WatchShell ==
    /\ mode = "watch"
    /\ pc = "loop"
    /\ steps < MaxSteps
    /\ \E res \in WatchShellReads :
          /\ lastIn' = [src |-> "shell", in |-> res]
          /\ replies' = NoteReply(res)
          /\ IF res.ok
             THEN LET r == ShellPayload(res.msg, pending_comm_ids)
                  IN  /\ stdout' = Emit(r.payload)
                      /\ pending_comm_ids' = r.pending
             ELSE UNCHANGED <<stdout, pending_comm_ids>>
          /\ removals' = NoteRemoval(pending_comm_ids, pending_comm_ids')
    /\ steps' = steps + 1
    /\ UNCHANGED <<pureVars, signature_scheme, mode, wait_for_idle, timeout_ms,
                   pc, exitCode, shellSent,
                   nextUuid, myId, now, deadline, logFilter, everPending>>


\* time passing while the select! is pending: the loop has no timer branch and
\* no deadline, so nothing but the clock changes (one tick is told apart: no
\* action of the loop reads the clock)
WatchTick ==
    /\ mode = "watch"
    /\ pc = "loop"
    /\ now = 0
    /\ now' = now + 1
    /\ UNCHANGED <<pureVars, signature_scheme, mode, wait_for_idle, timeout_ms,
                   pc, exitCode, stdout, shellSent,
                   pending_comm_ids, nextUuid, myId, deadline, steps, logFilter,
                   lastIn, everPending, replies, removals>>

(***************************************************************************)
(* The comm-port locator, connection.rs                                    *)
(***************************************************************************)
\* str::parse::<u64> on the decimal texts the model uses (any other text fails)
DecimalTexts == {<<"0", 0>>, <<"8787", 8787>>, <<"9090", 9090>>, <<"65535", 65535>>,
                 <<"65536", 65536>>, <<"+80", 80>>, <<"0080", 80>>, <<"5000", 5000>>}
ParseDecimal(text) ==
    IF \E e \in DecimalTexts : e[1] = text
    THEN Some((CHOOSE e \in DecimalTexts : e[1] = text)[2])
    ELSE None

\* u16::try_from(u64).ok()
U16(n) == IF n >= 0 /\ n <= 65535 THEN Some(n) ELSE None

\* mutant of parse_port_value: only a number is a port, a string never is
parse_port_value_numbers_only(value) ==
    IF value.t = "num" THEN U16(value.n) ELSE None

\* fn parse_port_value(value: Option<&Value>) -> Option<u16>
parse_port_value(value) ==
    CASE value.t = "num" -> U16(value.n)
      \* Number::as_u64 of an f64 is None
      [] value.t = "float" -> None
      [] value.t = "str" ->
            LET n == ParseDecimal(value.s) IN IF IsSome(n) THEN U16(n[1]) ELSE None
      [] OTHER -> None

\* The keys the model's objects use, in the byte order of a BTreeMap<String, _>
KeyOrder == << "a", "b", "content", "id", "method", "params", "port" >>
Rank(key) == CHOOSE i \in 1..Len(KeyOrder) : KeyOrder[i] = key

\* an entry sequence sorted by key (keys are distinct in a Map)
RECURSIVE SortedByKey(_)
SortedByKey(map) ==
    IF map = <<>> THEN <<>>
    ELSE LET first == CHOOSE i \in 1..Len(map) :
                         \A j \in 1..Len(map) : Rank(map[i].k) <= Rank(map[j].k)
         IN  <<map[first]>>
             \o SortedByKey(SelectSeq(map, LAMBDA p : p.k # map[first].k))

\* Map::values(): insertion order when serde_json is built with its
\* preserve_order feature (IndexMap), key order otherwise (BTreeMap)
values(map) ==
    LET entries == IF preserve_order THEN map ELSE SortedByKey(map)
    IN  [i \in 1..Len(entries) |-> entries[i].v]

\* fn find_port(value: &Value) -> Option<u16>; FirstPort is its for loop over
\* the values of an object or the elements of an array
RECURSIVE find_port(_), FirstPort(_)
\* mutant of find_port: the nested values are searched before the object's
\* own port key
find_port_nested_first(value) ==
    CASE value.t = "obj" ->
            LET port == FirstPort(values(value.o))
            IN  IF IsSome(port) THEN port
                ELSE parse_port_value(Get(value.o, "port"))
      [] value.t = "arr" -> FirstPort(value.a)
      [] OTHER -> None

find_port(value) ==
    CASE value.t = "obj" ->
            LET port == parse_port_value(Get(value.o, "port"))
            IN  IF IsSome(port) THEN port
                ELSE FirstPort(values(value.o))
      [] value.t = "arr" -> FirstPort(value.a)
      [] OTHER -> None
FirstPort(nested) ==
    IF nested = <<>> THEN None
    ELSE LET port == find_port(Head(nested))
         IN  IF IsSome(port) THEN port ELSE FirstPort(Tail(nested))

\* mutant of extract_comm_port: the search always starts from the root
extract_comm_port_root_only(data) == find_port(JObj(data))

\* fn extract_comm_port(data: &Map<String, Value>) -> Option<u16>
extract_comm_port(data) ==
    LET params == Get(data, "params")
        content == Get(data, "content")
        fromParams == IF params.t = "obj" THEN find_port(params) ELSE None
        fromContent == IF content.t = "obj" THEN find_port(content) ELSE None
    IN  IF IsSome(fromParams) THEN fromParams
        ELSE IF IsSome(fromContent) THEN fromContent
        ELSE find_port(JObj(data))

(***************************************************************************)
(* Deadlined waits: tokio::time::timeout(remaining, read)                  *)
(***************************************************************************)
\* mutant of Remaining: every iteration is given the whole timeout again
Remaining_restarted == timeout_ms

\* deadline.checked_duration_since(now).unwrap_or(0)
Remaining == IF deadline > now THEN deadline - now ELSE 0

\* the timer firing before any message is read
Elapsed == Err("elapsed", "", "")

\* the text of a read error propagated by `?`
ReadErrorText(err) == "read failed: " \o err.kind

\* what a wait iteration can get: the timer, or (within the bound) a read result
WaitOutcomes(reads) == {Elapsed} \cup (IF steps < MaxSteps THEN reads ELSE {})

(***************************************************************************)
(* run_lsp                                                                 *)
(***************************************************************************)
\* mutant of LspSend: the comm_open is sent only after an iopub_welcome was read
LspSend_after_welcome ==
    /\ mode = "lsp"
    /\ pc = "send"
    /\ LET comm_id == Uuid(nextUuid)
           msg_id == nextUuid + 1
       IN  /\ nextUuid' = nextUuid + 2
           /\ steps' = steps + 1
           /\ \E welcome \in BOOLEAN :
                 /\ lastIn' = [src |-> "startup", send_ok |-> welcome]
                 /\ IF welcome
                    THEN /\ shellSent' = Append(shellSent,
                                OutMsg("comm_open", msg_id, comm_id, LSP_COMM_TARGET,
                                       <<Pair("ip_address", JStr("127.0.0.1"))>>))
                         /\ myId' = Some(comm_id)
                         /\ deadline' = now + timeout_ms
                         /\ pc' = "wait"
                         /\ UNCHANGED <<stdout, exitCode>>
                    ELSE /\ ExitErr("Timed out waiting for iopub_welcome")
                         /\ UNCHANGED <<shellSent, myId, deadline>>
    /\ UNCHANGED <<pureVars, signature_scheme, mode, wait_for_idle, timeout_ms,
                   pending_comm_ids, now,
                   logFilter, everPending, replies, removals>>

LspSend ==
    /\ mode = "lsp"
    /\ pc = "send"
    /\ LET comm_id == Uuid(nextUuid)
           msg_id == nextUuid + 1
       IN  /\ nextUuid' = nextUuid + 2
           /\ \E sendOk \in BOOLEAN :
                 /\ lastIn' = [src |-> "startup", send_ok |-> sendOk]
                 /\ IF sendOk
                    THEN /\ shellSent' = Append(shellSent,
                                OutMsg("comm_open", msg_id, comm_id, LSP_COMM_TARGET,
                                       <<Pair("ip_address", JStr("127.0.0.1"))>>))
                         /\ myId' = Some(comm_id)
                         /\ deadline' = now + timeout_ms
                         /\ pc' = "wait"
                         /\ UNCHANGED <<stdout, exitCode>>
                    ELSE /\ ExitErr("Failed to send comm_open")
                         /\ UNCHANGED <<shellSent, myId, deadline>>
    /\ UNCHANGED <<pureVars, signature_scheme, mode, wait_for_idle, timeout_ms,
                   pending_comm_ids, now, steps,
                   logFilter, everPending, replies, removals>>

\* data of the comm_msgs read while waiting for the port: a numeric port under
\* params, a textual port under content, a port out of range, no port at all
PortData ==
    { <<Pair("params", JObj(<<Pair("port", JNum(8787))>>))>>,
      <<Pair("content", JObj(<<Pair("port", JStr("9090"))>>))>>,
      <<Pair("port", JNum(65536))>>,
      <<Pair("method", JStr("hello"))>> }

LspReads ==
    { Ok(InCommMsg(None, c, d)) : c \in {myId[1], "c1"}, d \in PortData }
    \cup { Ok(InCommClose(None, c)) : c \in {myId[1], "c1"} }
    \cup { Ok(InStatus(None, "idle")), Ok(InOther("stream", None)),
           Ok(InOther("iopub_welcome", None)) }
    \cup ReadErrors

Continue == [kind |-> "continue", port |-> 0]
Closed == [kind |-> "closed", port |-> 0]
Port(port) == [kind |-> "port", port |-> port]

\* mutant of CommPortOutcome: a comm_close of any comm ends the wait
CommPortOutcome_any_close(message, comm_id) ==
    IF message.type # "comm_msg"
    THEN IF message.type = "comm_close" THEN Closed ELSE Continue
    ELSE IF message.comm_id # comm_id
    THEN Continue
    ELSE LET port == extract_comm_port(message.data)
         IN  IF IsSome(port) THEN Port(port[1]) ELSE Continue

\* what the loop of wait_for_comm_port does with one message it has read
CommPortOutcome(message, comm_id) ==
    IF message.type # "comm_msg"
    THEN IF message.type = "comm_close" /\ message.comm_id = comm_id
         THEN Closed
         ELSE Continue
    ELSE IF message.comm_id # comm_id
    THEN Continue
    ELSE LET port == extract_comm_port(message.data)
         IN  IF IsSome(port) THEN Port(port[1]) ELSE Continue

\* one iteration of the loop of wait_for_comm_port, then run_lsp's ending
LspWait ==
    /\ mode = "lsp"
    /\ pc = "wait"
    /\ IF Remaining = 0
       THEN /\ ExitErr("Timed out waiting for Ark LSP comm response")
            /\ UNCHANGED <<now, steps, lastIn>>
       ELSE \E res \in WaitOutcomes(LspReads), dt \in 0..Remaining :
               /\ lastIn' = [src |-> "iopub", in |-> res]
               /\ steps' = steps + 1
               /\ now' = IF res = Elapsed THEN deadline ELSE now + dt
               /\ (res = Elapsed => dt = 0)
               /\ IF res = Elapsed
                  THEN ExitErr("Timed out waiting for Ark LSP comm response")
                  ELSE IF ~res.ok
                  THEN ExitErr(ReadErrorText(res))
                  ELSE LET outcome == CommPortOutcome(res.msg, myId[1])
                       IN  CASE outcome.kind = "closed" ->
                                   ExitErr("Comm closed before LSP port was received")
                             [] outcome.kind = "port" ->
                                   /\ stdout' = Append(stdout, EvLspPort(outcome.port))
                                   /\ ExitOk
                             [] OTHER -> UNCHANGED <<stdout, exitCode, pc>>
    /\ UNCHANGED <<pureVars, signature_scheme, mode, wait_for_idle, timeout_ms,
                   shellSent, pending_comm_ids,
                   nextUuid, myId, deadline, logFilter, everPending, replies, removals>>


(***************************************************************************)
(* run_execute_request                                                     *)
(***************************************************************************)
\* mutant of ExecSend: the idle status is awaited whatever the flag says
ExecSend_always_wait ==
    /\ mode = "execute"
    /\ pc = "send"
    /\ LET msg_id == nextUuid
       IN  /\ nextUuid' = nextUuid + 1
           /\ \E sendOk \in BOOLEAN :
                 /\ lastIn' = [src |-> "startup", send_ok |-> sendOk]
                 /\ IF ~sendOk
                    THEN /\ ExitErr("Failed to send execute_request")
                         /\ UNCHANGED <<shellSent, myId, deadline>>
                    ELSE /\ shellSent' = Append(shellSent,
                                OutMsg("execute_request", msg_id, "", "", EmptyData))
                         /\ myId' = Some(msg_id)
                         /\ deadline' = now + timeout_ms
                         /\ pc' = "wait"
                         /\ UNCHANGED <<stdout, exitCode>>
    /\ UNCHANGED <<pureVars, signature_scheme, mode, wait_for_idle, timeout_ms,
                   pending_comm_ids, now, steps,
                   logFilter, everPending, replies, removals>>

ExecSend ==
    /\ mode = "execute"
    /\ pc = "send"
    /\ LET msg_id == nextUuid
       IN  /\ nextUuid' = nextUuid + 1
           /\ \E sendOk \in BOOLEAN :
                 /\ lastIn' = [src |-> "startup", send_ok |-> sendOk]
                 /\ IF ~sendOk
                    THEN /\ ExitErr("Failed to send execute_request")
                         /\ UNCHANGED <<shellSent, myId, deadline>>
                    ELSE /\ shellSent' = Append(shellSent,
                                OutMsg("execute_request", msg_id, "", "", EmptyData))
                         /\ myId' = Some(msg_id)
                         /\ IF wait_for_idle
                            THEN /\ deadline' = now + timeout_ms
                                 /\ pc' = "wait"
                                 /\ UNCHANGED <<stdout, exitCode>>
                            ELSE /\ ExitOk
                                 /\ UNCHANGED <<stdout, deadline>>
    /\ UNCHANGED <<pureVars, signature_scheme, mode, wait_for_idle, timeout_ms,
                   pending_comm_ids, now, steps,
                   logFilter, everPending, replies, removals>>

ExecReads ==
    { Ok(InStatus(p, st)) : p \in {None, Some(0), myId}, st \in {"idle", "busy"} }
    \cup { Ok(InOther("execute_input", myId)), Ok(InCommClose(myId, "c1")),
           Ok(InOther("iopub_welcome", None)) }
    \cup ReadErrors

\* mutant of IsIdleReply: the parent of the status is not looked at
IsIdleReply_any_parent(message, msg_id) ==
    message.type = "status" /\ message.state = "idle"

\* the message wait_for_iopub_idle returns on: parent_header.msg_id is msg_id,
\* the content is a Status and its execution_state is Idle
IsIdleReply(message, msg_id) ==
    /\ message.parent = Some(msg_id)
    /\ message.type = "status"
    /\ message.state = "idle"

\* one iteration of the loop of wait_for_iopub_idle
ExecWait ==
    /\ mode = "execute"
    /\ pc = "wait"
    /\ IF Remaining = 0
       THEN /\ ExitErr("Timed out waiting for iopub idle")
            /\ UNCHANGED <<now, steps, lastIn>>
       ELSE \E res \in WaitOutcomes(ExecReads), dt \in 0..Remaining :
               /\ lastIn' = [src |-> "iopub", in |-> res]
               /\ steps' = steps + 1
               /\ now' = IF res = Elapsed THEN deadline ELSE now + dt
               /\ (res = Elapsed => dt = 0)
               /\ IF res = Elapsed
                  THEN ExitErr("Timed out waiting for iopub idle")
                  ELSE IF ~res.ok
                  THEN ExitErr(ReadErrorText(res))
                  ELSE IF IsIdleReply(res.msg, myId[1])
                  THEN /\ ExitOk
                       /\ UNCHANGED stdout
                  ELSE UNCHANGED <<stdout, exitCode, pc>>
    /\ UNCHANGED <<pureVars, signature_scheme, mode, wait_for_idle, timeout_ms,
                   shellSent, pending_comm_ids,
                   nextUuid, myId, deadline, logFilter, everPending, replies, removals>>

(***************************************************************************)
(* run_check                                                               *)
(***************************************************************************)
\* mutant of CheckSend: the request is sent again while the reply is awaited
CheckSend_again ==
    /\ mode = "check"
    /\ pc \in {"send", "wait"}
    /\ LET msg_id == nextUuid
       IN  /\ nextUuid' = nextUuid + 1
           /\ \E sendOk \in BOOLEAN :
                 /\ lastIn' = [src |-> "startup", send_ok |-> sendOk]
                 /\ IF ~sendOk
                    THEN /\ ExitErr("Failed to send kernel_info_request")
                         /\ UNCHANGED <<shellSent, myId, deadline>>
                    ELSE /\ shellSent' = Append(shellSent,
                                OutMsg("kernel_info_request", msg_id, "", "", EmptyData))
                         /\ myId' = Some(msg_id)
                         /\ deadline' = now + timeout_ms
                         /\ pc' = "wait"
                         /\ UNCHANGED <<stdout, exitCode>>
    /\ UNCHANGED <<pureVars, signature_scheme, mode, wait_for_idle, timeout_ms,
                   pending_comm_ids, now, steps, logFilter, everPending, replies,
                   removals>>

CheckSend ==
    /\ mode = "check"
    /\ pc = "send"
    /\ LET msg_id == nextUuid
       IN  /\ nextUuid' = nextUuid + 1
           /\ \E sendOk \in BOOLEAN :
                 /\ lastIn' = [src |-> "startup", send_ok |-> sendOk]
                 /\ IF ~sendOk
                    THEN /\ ExitErr("Failed to send kernel_info_request")
                         /\ UNCHANGED <<shellSent, myId, deadline>>
                    ELSE /\ shellSent' = Append(shellSent,
                                OutMsg("kernel_info_request", msg_id, "", "", EmptyData))
                         /\ myId' = Some(msg_id)
                         /\ deadline' = now + timeout_ms
                         /\ pc' = "wait"
                         /\ UNCHANGED <<stdout, exitCode>>
    /\ UNCHANGED <<pureVars, signature_scheme, mode, wait_for_idle, timeout_ms,
                   pending_comm_ids, now, steps,
                   logFilter, everPending, replies, removals>>

CheckReads ==
    { Ok(InOther(type, p)) :
        type \in {"kernel_info_reply", "status"}, p \in {None, Some(0), myId} }
    \cup ReadErrors
    \cup {KernelInfoReplyNoField}

\* mutant of IsReply: only a kernel_info_reply counts as the reply
IsReply_kernel_info_only(message, msg_id) ==
    message.parent = Some(msg_id) /\ message.type = "kernel_info_reply"

\* run_check: msg.parent_header msg_id == Some(&msg_id)
IsReply(message, msg_id) == message.parent = Some(msg_id)

\* mutant of ReadErrorEndsWait: a failed read is propagated
ReadErrorEndsWait_never(err) == FALSE

\* run_check: the arm Ok(Err(e)) => break, taken for every failed read
ReadErrorEndsWait(err) == TRUE

\* one iteration of the loop of run_check, then its ending
CheckWait ==
    /\ mode = "check"
    /\ pc = "wait"
    /\ IF Remaining = 0
       THEN /\ ExitErr("Timed out waiting for kernel response")
            /\ UNCHANGED <<now, steps, lastIn>>
       ELSE \E res \in WaitOutcomes(CheckReads), dt \in 0..Remaining :
               /\ lastIn' = [src |-> "shell", in |-> res]
               /\ steps' = steps + 1
               /\ now' = IF res = Elapsed THEN deadline ELSE now + dt
               /\ (res = Elapsed => dt = 0)
               /\ IF res = Elapsed
                  THEN ExitErr("Timed out waiting for kernel response")
                  ELSE IF ~res.ok
                  THEN IF ReadErrorEndsWait(res)
                       THEN /\ stdout' = Append(stdout, EvAlive)
                            /\ ExitOk
                       ELSE ExitErr(ReadErrorText(res))
                  ELSE IF IsReply(res.msg, myId[1])
                  THEN /\ stdout' = Append(stdout, EvAlive)
                       /\ ExitOk
                  ELSE UNCHANGED <<stdout, exitCode, pc>>
    /\ UNCHANGED <<pureVars, signature_scheme, mode, wait_for_idle, timeout_ms,
                   shellSent, pending_comm_ids,
                   nextUuid, myId, deadline, logFilter, everPending, replies, removals>>

(***************************************************************************)
(* The whole program                                                       *)
(***************************************************************************)
Next ==
    \/ Run
    \/ Connect
    \/ WatchOpen
    \/ WatchStdinLine
    \/ WatchStdinEof
    \/ WatchStdinErr
    \/ WatchIopub
    \/ WatchShell
    \/ WatchTick
    \/ LspSend
    \/ LspWait
    \/ ExecSend
    \/ ExecWait
    \/ CheckSend
    \/ CheckWait

Spec == Init /\ [][Next]_vars

\* The deadlined modes on their own, under the assumption that a run which can
\* take a step eventually takes one: the runtime keeps polling the wait, whose
\* timer fires when the deadline is reached, and only finitely many messages
\* (at most MaxSteps) are read before that.
DeadlinedNext ==
    \/ Run
    \/ Connect
    \/ LspSend
    \/ LspWait
    \/ ExecSend
    \/ ExecWait
    \/ CheckSend
    \/ CheckWait

DeadlinedInit == Init /\ mode # "watch"

DeadlinedSpec ==
    /\ DeadlinedInit
    /\ [][DeadlinedNext]_vars
    /\ WF_vars(DeadlinedNext)

(***************************************************************************)
(* Function-level runs: one pure function of the program applied to one    *)
(* argument drawn from a bounded set, on either build of serde_json.       *)
(***************************************************************************)
\* values met under a "port" key
PortValues ==
    { JNum(0), JNum(8787), JNum(65535), JNum(65536), JNum(-1), JFloat("8787.5"),
      JStr("0"), JStr("9090"), JStr("65535"), JStr("65536"), JStr("+80"), JStr("0080"),
      JStr("-1"), JStr("80.5"), JStr(" 80"), JStr("http"), JStr(""),
      JBool(TRUE), JBool(FALSE), JNull, JArr(<<>>), JObj(<<>>), Absent }

\* {"port": value}
Leaf(value) == JObj(<< Pair("port", value) >>)

\* JSON values the port search walks: scalars, objects with a valid or an
\* invalid port of their own, an array, an object whose fields were inserted
\* out of key order, and a port two objects deep
PortNodes ==
    { JNum(8787), JNull,
      Leaf(JNum(1)), Leaf(JNum(2)), Leaf(JStr("9090")), Leaf(JBool(TRUE)),
      JArr(<< Leaf(JNum(3)), Leaf(JNum(4)) >>),
      JObj(<< Pair("b", Leaf(JNum(5))), Pair("a", Leaf(JNum(6))) >>),
      JObj(<< Pair("a", JObj(<< Pair("b", Leaf(JNum(7))) >>)) >>) }

FindPortArgs ==
    PortNodes
    \cup { JArr(<< x, y >>) : x, y \in PortNodes }
    \cup { JObj(<< Pair(k[1], x), Pair(k[2], y) >>) :
             k \in { <<"a", "b">>, <<"b", "a">>, <<"a", "port">>, <<"port", "a">>,
                     <<"b", "port">>, <<"port", "b">> },
             x \in PortNodes, y \in PortNodes }

\* the data of a comm_msg: params, content and fields of the root, in several
\* insertion orders
CommPortNodes ==
    { JNum(8787), Leaf(JNum(1)), Leaf(JStr("9090")), Leaf(JBool(TRUE)),
      JArr(<< Leaf(JNum(3)) >>),
      JObj(<< Pair("b", Leaf(JNum(5))), Pair("a", Leaf(JNum(6))) >>) }
ExtractCommPortArgs ==
    { << Pair(k[1], x), Pair(k[2], y), Pair(k[3], z) >> :
         k \in { <<"params", "content", "port">>, <<"port", "content", "params">>,
                 <<"b", "params", "content">>, <<"content", "b", "a">>,
                 <<"b", "a", "params">> },
         x \in CommPortNodes, y \in CommPortNodes, z \in CommPortNodes }

\* data of a stdin comm_msg command, with an id of every JSON kind or none
RequestIds ==
    { JStr("r7"), JStr("7"), JStr(""), JNum(7), JNum(0), JNum(-3), JFloat("7.5"),
      JBool(TRUE), JNull, JObj(<< >>), JArr(<< >>), Absent }
RequestData == { Data(id, JStr("list"), "") : id \in RequestIds }

\* the pending table after the comm_msg command with data `request` was sent
\* with header.msg_id = 1
PendingAfter(request) ==
    RecordPending(EmptyMap,
                  CommMsgCommand(Line(JStr("comm_msg"), JStr("c1"), Absent,
                                      JObj(request), Absent)),
                  1, TRUE)

\* attach_comm_reply_id on an inbound comm_msg after `request` was forwarded
AttachCalls ==
    { [fn |-> "attach_comm_reply_id", request |-> q, data |-> d, parent |-> p,
       pending |-> PendingAfter(q)] :
         q \in RequestData, d \in ReplyData, p \in {None, Some(1), Some(2)} }

\* The command line, commands.rs.  Args as parse_args_from builds it; help is
\* set when -h or --help made the process print the usage and exit.
NoArgs ==
    [connection_file |-> None, ip_address |-> None, timeout_ms |-> DEFAULT_TIMEOUT_MS,
     mode |-> "lsp", code |-> None, code_is_base64 |-> FALSE, wait_for_idle |-> FALSE,
     help |-> FALSE]

\* while let Some(arg) = args.next() { match arg.as_str() { .. } }
RECURSIVE ParseLoop(_, _)
ParseLoop(args, st) ==
    IF args = << >> THEN st
    ELSE LET arg == Head(args)
             rest == Tail(args)
             \* args.next() inside an arm, and what is left after it
             next == IF rest = << >> THEN None ELSE Some(Head(rest))
             after == IF rest = << >> THEN << >> ELSE Tail(rest)
         IN  CASE arg = "--connection-file" ->
                     ParseLoop(after, [st EXCEPT !.connection_file = next])
               [] arg = "--ip-address" ->
                     ParseLoop(after, [st EXCEPT !.ip_address = next])
               [] arg = "--timeout-ms" ->
                     ParseLoop(after,
                               IF IsSome(next)
                               THEN LET value == ParseDecimal(next[1])
                                    IN  [st EXCEPT !.timeout_ms =
                                            IF IsSome(value) THEN value[1]
                                            ELSE DEFAULT_TIMEOUT_MS]
                               ELSE st)
               [] arg = "--execute" -> ParseLoop(rest, [st EXCEPT !.mode = "execute"])
               [] arg = "--watch-plot" -> ParseLoop(rest, [st EXCEPT !.mode = "watch"])
               [] arg = "--check" -> ParseLoop(rest, [st EXCEPT !.mode = "check"])
               [] arg = "--code" -> ParseLoop(after, [st EXCEPT !.code = next])
               [] arg = "--code-base64" ->
                     ParseLoop(rest, [st EXCEPT !.code_is_base64 = TRUE])
               [] arg = "--wait-for-idle" ->
                     ParseLoop(rest, [st EXCEPT !.wait_for_idle = TRUE])
               \* print_usage(); std::process::exit(0)
               [] arg \in {"-h", "--help"} -> [st EXCEPT !.help = TRUE]
               [] OTHER -> ParseLoop(rest, st)

\* Result<Args>, or the process gone with exit code 0 after the usage
ArgsOk(args) == [kind |-> "ok", args |-> args]
ArgsErr(message) == [kind |-> "err", message |-> message]
UsageExit == [kind |-> "exit", code |-> 0]

\* mutant of CheckRequired: --code is not asked for in execute mode
CheckRequired_code_optional(st) ==
    IF st.help THEN UsageExit
    ELSE IF st.connection_file = None THEN ArgsErr("--connection-file is required")
    ELSE IF st.mode = "lsp" /\ st.ip_address = None
    THEN ArgsErr("--ip-address is required")
    ELSE ArgsOk([connection_file |-> st.connection_file[1], ip_address |-> st.ip_address,
                 timeout_ms |-> st.timeout_ms, mode |-> st.mode, code |-> st.code,
                 code_is_base64 |-> st.code_is_base64,
                 wait_for_idle |-> st.wait_for_idle])

\* the checks after the loop and the Args returned
CheckRequired(st) ==
    IF st.help THEN UsageExit
    ELSE IF st.connection_file = None THEN ArgsErr("--connection-file is required")
    ELSE IF st.mode = "execute" /\ st.code = None
    THEN ArgsErr("--code is required for --execute")
    ELSE IF st.mode = "lsp" /\ st.ip_address = None
    THEN ArgsErr("--ip-address is required")
    ELSE ArgsOk([connection_file |-> st.connection_file[1], ip_address |-> st.ip_address,
                 timeout_ms |-> st.timeout_ms, mode |-> st.mode, code |-> st.code,
                 code_is_base64 |-> st.code_is_base64,
                 wait_for_idle |-> st.wait_for_idle])

\* fn parse_args_from(args) -> Result<Args>
parse_args_from(args) == CheckRequired(ParseLoop(args, NoArgs))

\* groups of arguments a command line is made of: a flag with its value, a
\* flag alone (also one that wants a value), an argument no arm knows
ArgGroups ==
    { <<"--connection-file", "conn.json">>, <<"--connection-file", "other.json">>,
      <<"--ip-address", "127.0.0.1">>, <<"--timeout-ms", "5000">>,
      <<"--timeout-ms", "abc">>, <<"--code", "1 + 1">>,
      <<"--execute">>, <<"--watch-plot">>, <<"--check">>, <<"--code-base64">>,
      <<"--wait-for-idle">>, <<"--help">>, <<"-h">>, <<"extra">>,
      <<"--connection-file">>, <<"--ip-address">>, <<"--timeout-ms">>, <<"--code">> }

\* the command lines of at most n groups
RECURSIVE Argvs(_)
Argvs(n) ==
    IF n = 0 THEN { << >> }
    ELSE Argvs(n - 1) \cup { a \o g : a \in Argvs(n - 1), g \in ArgGroups }

Calls ==
    { [fn |-> "parse_args_from", args |-> a] : a \in Argvs(MaxArgs) }
    \cup { [fn |-> "parse_port_value", value |-> v] : v \in PortValues }
    \cup { [fn |-> "find_port", value |-> v] : v \in FindPortArgs }
    \cup { [fn |-> "extract_comm_port", data |-> d] : d \in ExtractCommPortArgs }
    \cup { [fn |-> "extract_request_id", data |-> d] : d \in RequestData }
    \cup AttachCalls

\* no run of main() is under way
FunctionInit ==
    /\ RunInit
    /\ signature_scheme = SUPPORTED_SIGNATURE_SCHEME
    /\ mode = "lsp"
    /\ timeout_ms = 0
    /\ call \in Calls
    \* the build matters to the port search only
    /\ preserve_order \in (IF call.fn \in {"find_port", "extract_comm_port"}
                            THEN BOOLEAN ELSE {TRUE})
    /\ ret = None

ParsePortValue ==
    /\ call.fn = "parse_port_value"
    /\ ret = None
    /\ ret' = Some(parse_port_value(call.value))
    /\ UNCHANGED <<preserve_order, call, runVars>>

FindPort ==
    /\ call.fn = "find_port"
    /\ ret = None
    /\ ret' = Some(find_port(call.value))
    /\ UNCHANGED <<preserve_order, call, runVars>>

ExtractCommPort ==
    /\ call.fn = "extract_comm_port"
    /\ ret = None
    /\ ret' = Some(extract_comm_port(call.data))
    /\ UNCHANGED <<preserve_order, call, runVars>>

ExtractRequestId ==
    /\ call.fn = "extract_request_id"
    /\ ret = None
    /\ ret' = Some(extract_request_id(call.data))
    /\ UNCHANGED <<preserve_order, call, runVars>>

AttachCommReplyId ==
    /\ call.fn = "attach_comm_reply_id"
    /\ ret = None
    /\ ret' = Some(attach_comm_reply_id(call.data, call.parent, call.pending))
    /\ UNCHANGED <<preserve_order, call, runVars>>

ParseArgsFrom ==
    /\ call.fn = "parse_args_from"
    /\ ret = None
    /\ ret' = Some(parse_args_from(call.args))
    /\ UNCHANGED <<preserve_order, call, runVars>>

FunctionNext ==
    \/ ParseArgsFrom
    \/ ParsePortValue
    \/ FindPort
    \/ ExtractCommPort
    \/ ExtractRequestId
    \/ AttachCommReplyId

FunctionSpec == FunctionInit /\ [][FunctionNext]_vars


(***************************************************************************)
(* Vocabulary of the properties                                            *)
(***************************************************************************)
Last(seq) == seq[Len(seq)]
Count(seq, x) == Cardinality({ i \in 1..Len(seq) : seq[i] = x })
HasId(data) == is_some(Get(data, "id"))

\* this step is one wake of a wait loop; lastIn' is the input it handled
Woke == steps' = steps + 1

\* msg_ids of the comm_msgs forwarded on shell, and the data each carried
SentCommMsgIds == { x.msg_id : x \in { y \in Range(shellSent) : y.type = "comm_msg" } }
SentData(m) == (CHOOSE x \in Range(shellSent) : x.msg_id = m).data

\* input `in` is an inbound comm_msg (from IOPub or shell) / one whose parent is m
InboundCommMsg(in) ==
    in.src \in {"iopub", "shell"} /\ in.in.ok /\ in.in.msg.type = "comm_msg"
ReplyTo(in, m) == InboundCommMsg(in) /\ in.in.msg.parent = Some(m)

\* the step printed exactly one more event
EmittedOne == Len(stdout') = Len(stdout) + 1

\* the decimal text of a string or number id
IdText(v) == IF v.t = "str" THEN v.s ELSE ToString(v.n)

(***************************************************************************)
(* C1                                                                      *)
(***************************************************************************)
\* C1, as stated: after a comm_msg with data.id = x was forwarded with msg_id m,
\* the next inbound comm_msg with parent m and no id of its own is emitted with
\* data.id = x, and m is gone from the pending table.
C1_AsStated ==
    [][ \A m \in SentCommMsgIds :
          ( /\ HasId(SentData(m))
            /\ Woke
            /\ ReplyTo(lastIn', m)
            /\ ~HasId(lastIn'.in.msg.data)
            /\ ~\E i \in 1..Len(replies) : replies[i].parent = m /\ ~replies[i].has_id )
          => ( /\ EmittedOne
               /\ Get(Last(stdout').data, "id") = Get(SentData(m), "id")
               /\ m \notin DOMAIN pending_comm_ids' ) ]_vars

\* C1, amended: when the forwarded data.id is a string or a number, the first
\* inbound comm_msg with parent m, if it has no id of its own, is emitted with
\* data.id = the id's text as a JSON string, and m is gone from the table.
C1_FirstReplyStamped ==
    [][ \A m \in SentCommMsgIds :
          ( /\ Get(SentData(m), "id").t \in {"str", "num"}
            /\ Woke
            /\ ReplyTo(lastIn', m)
            /\ ~HasId(lastIn'.in.msg.data)
            /\ ~\E i \in 1..Len(replies) : replies[i].parent = m )
          => ( /\ EmittedOne
               /\ Last(stdout').comm_id = lastIn'.in.msg.comm_id
               /\ Get(Last(stdout').data, "id") = JStr(IdText(Get(SentData(m), "id")))
               /\ m \notin DOMAIN pending_comm_ids' ) ]_vars

\* a number-id request has just had its first reply stamped with the text "7"
C1_Witness ==
    \E m \in SentCommMsgIds :
        /\ Get(SentData(m), "id") = JNum(7)
        /\ ReplyTo(lastIn, m)
        /\ ~HasId(lastIn.in.msg.data)
        /\ Count([i \in 1..Len(replies) |-> replies[i].parent], m) = 1
        /\ Get(Last(stdout).data, "id") = JStr("7")
        /\ m \notin DOMAIN pending_comm_ids

(***************************************************************************)
(* C2                                                                      *)
(***************************************************************************)
\* C2: an inbound comm_msg that carries its own id and whose parent is a pending
\* entry removes that entry and is emitted with its data unchanged.
C2_OwnIdPassesThrough ==
    [][ \A m \in DOMAIN pending_comm_ids :
          ( Woke /\ ReplyTo(lastIn', m) /\ HasId(lastIn'.in.msg.data) )
          => ( /\ m \notin DOMAIN pending_comm_ids'
               /\ EmittedOne
               /\ Last(stdout').comm_id = lastIn'.in.msg.comm_id
               /\ Last(stdout').data = lastIn'.in.msg.data ) ]_vars

\* the latest wake dropped a pending entry for a reply carrying its own id
C2_Witness ==
    /\ removals # <<>>
    /\ ReplyTo(lastIn, Last(removals))
    /\ HasId(lastIn.in.msg.data)
    /\ Count([i \in 1..Len(replies) |-> replies[i].parent], Last(removals)) = 1
    /\ Last(stdout).data = lastIn.in.msg.data
    /\ Get(Last(stdout).data, "id") # JStr(IdText(Get(SentData(Last(removals)), "id")))

(***************************************************************************)
(* C3                                                                      *)
(***************************************************************************)
\* C3, as stated: by the end of the run every entry ever inserted has been
\* removed exactly once (none stays in the table).
C3_AsStated ==
    pc = "exited" => \A m \in everPending : Count(removals, m) = 1

\* C3, amended: an entry is removed at most once, exactly when an inbound
\* comm_msg naming it as parent has been handled; until then it stays.
C3_RemovedAtMostOnce ==
    /\ \A i \in 1..Len(removals) : removals[i] \in everPending
    /\ \A m \in everPending :
          /\ Count(removals, m) <= 1
          /\ (m \in DOMAIN pending_comm_ids <=> Count(removals, m) = 0)
          /\ (Count(removals, m) = 1 <=> \E i \in 1..Len(replies) : replies[i].parent = m)

\* the run ended with one entry removed by its reply and another still pending
C3_Witness ==
    /\ pc = "exited"
    /\ \E m \in everPending : Count(removals, m) = 1
    /\ \E m \in everPending : m \in DOMAIN pending_comm_ids

(***************************************************************************)
(* Vocabulary of the error-handling properties                             *)
(***************************************************************************)
\* this step handled an input: a wake of a wait loop, or a start-up send
Acted == Woke \/ nextUuid' # nextUuid

\* the step ended the run as main() ends a failed run: error event, exit 1
EndedFatal ==
    /\ pc' = "exited"
    /\ exitCode' = 1
    /\ EmittedOne
    /\ Last(stdout').event = "error"

\* the step ended the run with success and printed nothing
EndedClean == pc' = "exited" /\ exitCode' = 0 /\ stdout' = stdout

\* the input was a send on shell that failed / a read on a socket that failed
SendFailed(in) == in.src \in {"startup", "stdin"} /\ ~in.send_ok
ReadFailed(in, kinds) ==
    in.src \in {"iopub", "shell"} /\ ~in.in.ok /\ in.in.kind \in kinds

NoErrorEvent == \A i \in 1..Len(stdout) : stdout[i].event # "error"

C5_SignatureMismatchFatal ==
    [][ ( Woke /\ ReadFailed(lastIn', {"signature"}) ) => EndedFatal ]_vars

(***************************************************************************)
(* C6                                                                      *)
(***************************************************************************)
\* C6: in watch mode, once stdin EOF has been read the run has ended with exit
\* code 0 and no error event, whatever the pending table holds.
C6_EofEndsCleanly ==
    lastIn.src = "stdin_eof" => pc = "exited" /\ exitCode = 0 /\ NoErrorEvent

\* EOF was read while a request was still pending and after kernel traffic
C6_Witness ==
    /\ lastIn.src = "stdin_eof"
    /\ pending_comm_ids # EmptyMap
    /\ replies # <<>>
    /\ exitCode = 0

(***************************************************************************)
(* C7                                                                      *)
(***************************************************************************)
\* C7, as stated: the watch loop ends only on stdin EOF or on a fatal socket
\* error (a socket-level or signature failure of a read).
C7_AsStated ==
    [][ ( mode = "watch" /\ pc = "loop" /\ pc' = "exited" )
        => \/ lastIn'.src = "stdin_eof"
           \/ ReadFailed(lastIn', {"socket", "signature"}) ]_vars

\* C7, amended: the watch loop has no deadline; stdin EOF and a stdin read
\* error end it with success, an IOPub read error other than a comm_close
\* lacking data ends it with an error, and a stdin line (good or bad), a
\* decoded kernel message of any type and elapsed time do not end it.
C7_LoopEndings ==
    [][ ( mode = "watch" /\ pc = "loop" ) =>
          /\ (lastIn'.src \in {"stdin_eof", "stdin_err"} /\ lastIn' # lastIn
                => EndedClean)
          /\ (Woke /\ lastIn'.src = "iopub" /\ ~lastIn'.in.ok
                   /\ ~is_comm_close_missing_data(lastIn'.in) => EndedFatal)
          /\ (Woke /\ lastIn'.src = "stdin" => pc' = "loop")
          /\ (Woke /\ lastIn'.src \in {"iopub", "shell"} /\ lastIn'.in.ok
                => pc' = "loop")
          /\ (now' # now => pc' = "loop") ]_vars

\* a stdin read error ended a loop that had been handling inputs, with exit 0
C7_Witness ==
    /\ lastIn.src = "stdin_err"
    /\ pc = "exited"
    /\ exitCode = 0
    /\ steps > 0
    /\ now > 0

(***************************************************************************)
(* C8                                                                      *)
(***************************************************************************)
\* the lines C8 names: invalid JSON, no command, an unknown command, or a
\* command lacking a field it requires
KnownCommands == {"comm_msg", "comm_open", "comm_close", LOG_RELOAD_COMMAND}
LacksRequiredField(line) ==
    \/ line.command = JStr("comm_msg")
         /\ (line.comm_id.t # "str" \/ line.data.t # "obj")
    \/ line.command = JStr("comm_open")
         /\ (line.comm_id.t # "str" \/ line.target_name.t # "str" \/ line.data.t # "obj")
    \/ line.command = JStr("comm_close") /\ line.comm_id.t # "str"
BadLine(line) ==
    \/ ~line.json
    \/ line.command.t # "str"
    \/ line.command.s \notin KnownCommands
    \/ LacksRequiredField(line)

\* C8: a bad stdin line is dropped: nothing is sent on shell, no event is
\* emitted, the pending table is unchanged and the loop goes on.
C8_BadLineDropped ==
    [][ ( mode = "watch" /\ pc = "loop" /\ Woke
          /\ lastIn'.src = "stdin" /\ BadLine(lastIn'.in) )
        => ( /\ UNCHANGED <<shellSent, stdout, pending_comm_ids, nextUuid>>
             /\ pc' = "loop"
             /\ exitCode' = -1 ) ]_vars

\* a comm_msg line without data was dropped while a request was pending
C8_Witness ==
    /\ pc = "loop"
    /\ lastIn.src = "stdin"
    /\ lastIn.in.command = JStr("comm_msg")
    /\ LacksRequiredField(lastIn.in)
    /\ pending_comm_ids # EmptyMap
    /\ Len(shellSent) = 5

C10_OnlyCommCloseTolerated ==
    [][ ( Woke /\ lastIn'.src = "iopub" /\ ReadFailed(lastIn', {"decode"}) )
        => IF lastIn'.in = CommCloseNoData
           THEN pc' = pc /\ exitCode' = -1 /\ stdout' = stdout
           ELSE EndedFatal ]_vars

(***************************************************************************)
(* Vocabulary of the event-emitter properties                              *)
(***************************************************************************)
\* this step handled a decoded message read from `src` in the watch loop
WatchRead(src) ==
    mode = "watch" /\ Woke /\ lastIn'.src = src /\ lastIn'.in.ok

\* the step printed exactly the line `ev` after what was printed before
Printed(ev) == stdout' = Append(stdout, ev)

\* the data a comm_msg event carries: the message's data, with the recorded
\* request id added when the data has no id and the parent is pending
StampedData(data, parent, pending) ==
    IF HasId(data) \/ parent = None THEN data
    ELSE IF parent[1] \notin DOMAIN pending THEN data
    ELSE Append(data, Pair("id", JStr(pending[parent[1]])))

(***************************************************************************)
(* C11                                                                     *)
(***************************************************************************)
\* the event tags each IOPub content type can give rise to
TagsOf(type) ==
    CASE type = "display_data" -> {"display_data"}
      [] type = "update_display_data" -> {"update_display_data"}
      [] type = "comm_open" -> {"comm_open", "ui_comm_open", "help_comm_open",
                                "variables_comm_open", "data_explorer_comm_open"}
      [] type = "comm_msg" -> {"comm_msg", "show_help", "show_html_file"}
      [] type = "comm_close" -> {"comm_close"}
      [] type = "status" -> {"kernel_status"}
      [] OTHER -> {}

\* C11: an IOPub message handled by the watch loop prints at most one event,
\* whose tag is one of those of the message's content type (a kernel_status
\* carries idle, busy, starting or unknown); comm_msg, comm_close and status
\* always print one; any other content type, stream included, prints nothing.
C11_TagByContentType ==
    [][ WatchRead("iopub") =>
          LET type == lastIn'.in.msg.type
          IN  /\ \/ stdout' = stdout
                 \/ /\ EmittedOne
                    /\ SubSeq(stdout', 1, Len(stdout)) = stdout
                    /\ Last(stdout').event \in TagsOf(type)
                    /\ type = "status" =>
                         Last(stdout').status \in {"idle", "busy", "starting", "unknown"}
              /\ type \in {"comm_msg", "comm_close", "status"} => EmittedOne ]_vars

\* a stream message was passed over in silence right after a status the
\* sidecar does not know was reported as unknown
C11_Witness ==
    /\ mode = "watch"
    /\ lastIn.src = "iopub"
    /\ lastIn.in.ok
    /\ lastIn.in.msg.type = "stream"
    /\ stdout # <<>>
    /\ Last(stdout) = EvStatus("unknown")

(***************************************************************************)
(* C12                                                                     *)
(***************************************************************************)
\* the event tag C12 gives each target name ("": none)
OpenTagOf(target_name) ==
    CASE target_name = "positron.plot" -> "comm_open"
      [] target_name = "positron.ui" -> "ui_comm_open"
      [] target_name = "positron.help" -> "help_comm_open"
      [] target_name = "positron.variables" -> "variables_comm_open"
      [] target_name = "positron.dataExplorer" -> "data_explorer_comm_open"
      [] OTHER -> ""

\* C12: an IOPub comm_open prints the event of its target name, carrying the
\* message's comm_id, target_name and data; any other target name (positron.lsp
\* included) prints nothing.
C12_CommOpenByTarget ==
    [][ ( WatchRead("iopub") /\ lastIn'.in.msg.type = "comm_open" ) =>
          LET message == lastIn'.in.msg
              tag == OpenTagOf(message.target_name)
          IN  IF tag = ""
              THEN stdout' = stdout
              ELSE Printed([event |-> tag, comm_id |-> message.comm_id,
                            target_name |-> message.target_name,
                            data |-> message.data]) ]_vars

\* a data explorer comm_open of the kernel was announced with its data, and an
\* LSP comm_open read after it printed nothing
C12_Witness ==
    /\ mode = "watch"
    /\ lastIn.src = "iopub"
    /\ lastIn.in.ok
    /\ lastIn.in.msg.type = "comm_open"
    /\ lastIn.in.msg.target_name = "positron.lsp"
    /\ stdout # <<>>
    /\ Last(stdout) = [event |-> "data_explorer_comm_open", comm_id |-> "c3",
                       target_name |-> "positron.dataExplorer", data |-> OpenData]

(***************************************************************************)
(* C13                                                                     *)
(***************************************************************************)
\* the event tag C13 gives a comm_msg's data
MethodTagOf(data) ==
    LET method == Get(data, "method")
    IN  IF method = JStr("show_html_file") THEN "show_html_file"
        ELSE IF method = JStr("show_help") THEN "show_help"
        ELSE "comm_msg"

\* C13: an IOPub comm_msg prints exactly one event, tagged show_html_file or
\* show_help when data.method is that string and comm_msg otherwise, carrying
\* the comm_id and the data with the correlation id attached.
C13_CommMsgByMethod ==
    [][ ( WatchRead("iopub") /\ lastIn'.in.msg.type = "comm_msg" ) =>
          LET message == lastIn'.in.msg
          IN  Printed([event |-> MethodTagOf(message.data),
                       comm_id |-> message.comm_id,
                       data |-> StampedData(message.data, message.parent,
                                            pending_comm_ids)]) ]_vars

\* a show_html_file message answering a pending request was printed as
\* show_html_file with the request id stamped on it
C13_Witness ==
    /\ mode = "watch"
    /\ lastIn.src = "iopub"
    /\ lastIn.in.ok
    /\ lastIn.in.msg.type = "comm_msg"
    /\ ~HasId(lastIn.in.msg.data)
    /\ Last(stdout).event = "show_html_file"
    /\ Get(Last(stdout).data, "id") = JStr("r7")
    /\ pending_comm_ids = EmptyMap

(***************************************************************************)
(* C14                                                                     *)
(***************************************************************************)
\* C14: a comm_msg read from shell prints exactly one comm_msg event, whatever
\* its method, carrying the data with the correlation id attached; a shell
\* message of another type prints nothing and leaves the pending table alone.
C14_ShellCommMsgOnly ==
    [][ WatchRead("shell") =>
          LET message == lastIn'.in.msg
          IN  IF message.type = "comm_msg"
              THEN Printed([event |-> "comm_msg", comm_id |-> message.comm_id,
                            data |-> StampedData(message.data, message.parent,
                                                 pending_comm_ids)])
              ELSE UNCHANGED <<stdout, pending_comm_ids>> ]_vars

\* a show_help message read from shell was printed as a plain comm_msg, and a
\* kernel_info_reply read after it printed nothing while a request was pending
C14_Witness ==
    /\ mode = "watch"
    /\ lastIn.src = "shell"
    /\ lastIn.in.ok
    /\ lastIn.in.msg.type = "kernel_info_reply"
    /\ pending_comm_ids # EmptyMap
    /\ Last(stdout).event = "comm_msg"
    /\ Get(Last(stdout).data, "method") = JStr("show_help")

(***************************************************************************)
(* C15                                                                     *)
(***************************************************************************)
\* the positions of the PNG items of a media bundle
PngItems(media) == { i \in 1..Len(media) : media[i].mime = "png" }

\* C15: a display_data or update_display_data prints an event of the same name
\* iff its bundle holds a PNG item; the event's data is the first PNG item and
\* its display_id the transient display_id (none, printed as null, when absent).
C15_PlotEventIffPng ==
    [][ ( WatchRead("iopub")
          /\ lastIn'.in.msg.type \in {"display_data", "update_display_data"} ) =>
          LET message == lastIn'.in.msg
              png == PngItems(message.media)
          IN  IF png = {}
              THEN stdout' = stdout
              ELSE Printed([event |-> message.type,
                            data |-> message.media[CHOOSE i \in png :
                                                     \A j \in png : i <= j].d,
                            display_id |-> message.display_id]) ]_vars

\* an update_display_data with two PNG items and no display_id was printed
\* with the first item's data
C15_Witness ==
    /\ mode = "watch"
    /\ lastIn.src = "iopub"
    /\ lastIn.in.ok
    /\ lastIn.in.msg.type = "update_display_data"
    /\ Cardinality(PngItems(lastIn.in.msg.media)) = 2
    /\ Last(stdout) = [event |-> "update_display_data", data |-> "AAAA",
                       display_id |-> None]

(***************************************************************************)
(* C16                                                                     *)
(***************************************************************************)
\* the positions of the lsp_port events printed so far
LspPortEvents == { i \in 1..Len(stdout) : stdout[i].event = "lsp_port" }

\* C16: in lsp mode a run that has ended with exit code 0 has printed exactly
\* one lsp_port event; a run that ended otherwise, or has not ended, none.
C16_OneLspPortIffSuccess ==
    mode = "lsp" =>
        Cardinality(LspPortEvents) = IF pc = "exited" /\ exitCode = 0 THEN 1 ELSE 0

\* an lsp run ended with exit code 0 and the port as its only output
C16_Witness ==
    /\ mode = "lsp"
    /\ pc = "exited"
    /\ exitCode = 0
    /\ stdout = << [event |-> "lsp_port", port |-> 8787] >>

(***************************************************************************)
(* C17                                                                     *)
(***************************************************************************)
\* C17: while lsp mode waits, a comm_msg of its own comm carrying a valid port
\* ends the run with that port; a comm_close of its own comm ends it with the
\* comm-closed error; every other message (other comms, other types, an own
\* comm_msg without a valid port) leaves it waiting and prints nothing.
C17_LspWaitClassification ==
    [][ ( mode = "lsp" /\ Woke /\ lastIn'.src = "iopub" /\ lastIn'.in.ok ) =>
          LET message == lastIn'.in.msg
              own == message.comm_id = myId[1]
              port == extract_comm_port(message.data)
          IN  CASE message.type = "comm_msg" /\ own /\ IsSome(port) ->
                      /\ Printed([event |-> "lsp_port", port |-> port[1]])
                      /\ pc' = "exited"
                      /\ exitCode' = 0
                [] message.type = "comm_close" /\ own ->
                      /\ Printed(EvError("Comm closed before LSP port was received"))
                      /\ pc' = "exited"
                      /\ exitCode' = 1
                [] OTHER -> UNCHANGED <<stdout, pc, exitCode>> ]_vars

\* the port came from the third message read: the run had stayed waiting
\* through two messages and then read its own comm's textual port
C17_Witness ==
    /\ mode = "lsp"
    /\ pc = "exited"
    /\ steps = 3
    /\ lastIn.in.ok
    /\ lastIn.in.msg.comm_id = myId[1]
    /\ Get(lastIn.in.msg.data, "content") = JObj(<<Pair("port", JStr("9090"))>>)
    /\ stdout = << [event |-> "lsp_port", port |-> 9090] >>

(***************************************************************************)
(* C18                                                                     *)
(***************************************************************************)
\* C18: every mode sends its first message without having read anything from
\* the kernel: a step taken between connecting and the wait reads no message,
\* and ends the run only when its send on shell failed.
C18_NoWelcomeWait ==
    [][ pc \notin {"start", "connect", "wait", "loop", "exited"} =>
          /\ steps = 0
          /\ steps' = 0
          /\ lastIn'.src = "startup"
          /\ IF lastIn'.send_ok
             THEN /\ Len(shellSent') = Len(shellSent) + 1
                  /\ ~(pc' = "exited" /\ exitCode' = 1)
             ELSE EndedFatal /\ shellSent' = shellSent ]_vars

\* an execute run that waits for idle ended with exit code 0 having read a
\* single message, the idle status of its request, and an lsp run likewise
\* needs no welcome (C16_Witness)
C18_Witness ==
    /\ mode = "execute"
    /\ wait_for_idle
    /\ pc = "exited"
    /\ exitCode = 0
    /\ steps = 1
    /\ lastIn.in.msg.type = "status"
    /\ lastIn.in.msg.parent = myId
    /\ stdout = <<>>

(***************************************************************************)
(* C19                                                                     *)
(***************************************************************************)
\* C19: an execute run without wait_for_idle never reads a kernel message and
\* never prints an event other than the error of a failed connect or send;
\* once its send succeeded it has ended with exit code 0, having sent exactly
\* one execute_request and printed nothing.
C19_FireAndForget ==
    ( mode = "execute" /\ ~wait_for_idle ) =>
        /\ steps = 0
        /\ pc # "wait"
        /\ \A i \in 1..Len(stdout) : stdout[i].event = "error"
        /\ stdout # <<>> => pc = "exited" /\ exitCode = 1 /\ shellSent = <<>>
        /\ shellSent # <<>> =>
              /\ Len(shellSent) = 1
              /\ shellSent[1].type = "execute_request"
              /\ pc = "exited"
              /\ exitCode = 0
              /\ stdout = <<>>

\* an execute run without wait_for_idle ended after its one request
C19_Witness ==
    /\ mode = "execute"
    /\ ~wait_for_idle
    /\ pc = "exited"
    /\ exitCode = 0
    /\ Len(shellSent) = 1
    /\ shellSent[1].type = "execute_request"
    /\ stdout = <<>>
    /\ steps = 0

(***************************************************************************)
(* C20                                                                     *)
(***************************************************************************)
\* C20: an execute run without wait_for_idle never fails on the IOPub
\* connection, which it does not open.
C20_IopubOnlyWhenWaiting ==
    ( mode = "execute" /\ ~wait_for_idle ) =>
        ~( /\ pc = "exited"
           /\ exitCode = 1
           /\ stdout = << EvError("Failed to connect iopub") >> )

(***************************************************************************)
(* C30                                                                     *)
(***************************************************************************)
\* C30: in every mode a run whose connection file names a signature scheme
\* other than hmac-sha256 never gets as far as opening a socket or sending a
\* message, and ends with the unsupported-scheme error and exit code 1.
C30_UnsupportedSchemeFailsFirst ==
    signature_scheme # "hmac-sha256" =>
        /\ pc \in {"start", "exited"}
        /\ shellSent = <<>>
        /\ steps = 0
        /\ pc = "exited" =>
              /\ exitCode = 1
              /\ stdout = << [event |-> "error",
                              message |-> "Unsupported signature scheme: "
                                             \o signature_scheme] >>

\* an execute run was refused for its connection file's scheme
C30_Witness ==
    /\ signature_scheme = "hmac-sha1"
    /\ mode = "execute"
    /\ pc = "exited"
    /\ exitCode = 1
    /\ stdout = << EvError("Unsupported signature scheme: hmac-sha1") >>

(***************************************************************************)
(* C21                                                                     *)
(***************************************************************************)
\* the wait of a deadlined mode found no time left, or its timer fired
TimedOut ==
    \/ ~Woke /\ pc' # pc
    \/ Woke /\ lastIn'.in = Elapsed

\* C21: while execute mode waits for idle, the run ends with exit code 0
\* exactly on reading, with time left, a status whose parent is the
\* execute_request and whose state is idle; every other decoded message leaves
\* the wait as it was; running out of time ends the run with the timeout error.
C21_IdleOfOwnRequest ==
    [][ ( mode = "execute" /\ pc = "wait" ) =>
          LET in == lastIn'.in
              qualifies == /\ Woke
                           /\ in.ok
                           /\ in.msg.type = "status"
                           /\ in.msg.state = "idle"
                           /\ in.msg.parent # None
                           /\ in.msg.parent[1] = shellSent[1].msg_id
          IN  /\ (pc' = "exited" /\ exitCode' = 0) <=> qualifies
              /\ qualifies => now < deadline /\ now' <= deadline /\ stdout' = stdout
              /\ (Woke /\ in.ok /\ ~qualifies) =>
                    UNCHANGED <<pc, exitCode, stdout, shellSent, deadline>>
              /\ TimedOut =>
                    /\ pc' = "exited"
                    /\ exitCode' = 1
                    /\ Printed(EvError("Timed out waiting for iopub idle")) ]_vars

\* the idle status of the request ended the run after a busy status of the
\* request and an idle status of another request had been discarded
C21_Witness ==
    /\ mode = "execute"
    /\ pc = "exited"
    /\ exitCode = 0
    /\ steps = 3
    /\ now < deadline
    /\ lastIn.in.ok
    /\ lastIn.in.msg.parent = Some(shellSent[1].msg_id)
    /\ lastIn.in.msg.state = "idle"

(***************************************************************************)
(* C22                                                                     *)
(***************************************************************************)
\* C22: while check mode waits, a decoded shell message of any type whose
\* parent is the kernel_info_request ends the run with one alive event and
\* exit code 0; one with another parent or none leaves the wait as it was; a
\* check run that ended with exit code 0 has printed the alive event only.
C22_AnyReplyToOwnRequest ==
    [][ mode = "check" =>
          /\ ( Woke /\ lastIn'.in.ok ) =>
                LET message == lastIn'.in.msg
                IN  IF message.parent # None
                          /\ message.parent[1] = shellSent[1].msg_id
                    THEN /\ Printed([event |-> "alive"])
                         /\ pc' = "exited"
                         /\ exitCode' = 0
                    ELSE UNCHANGED <<pc, exitCode, stdout, shellSent, deadline>>
          /\ ( pc' = "exited" /\ exitCode' = 0 ) =>
                stdout' = << [event |-> "alive"] >> ]_vars

\* a status message answering the request ended the wait after a
\* kernel_info_reply to another request had been passed over
C22_Witness ==
    /\ mode = "check"
    /\ pc = "exited"
    /\ exitCode = 0
    /\ steps >= 2
    /\ lastIn.in.ok
    /\ lastIn.in.msg.type = "status"
    /\ lastIn.in.msg.parent = myId
    /\ stdout = << EvAlive >>

(***************************************************************************)
(* C23                                                                     *)
(***************************************************************************)
\* C23: while check mode waits, a shell read that fails to decode ends the
\* run with the alive event and exit code 0.
C23_DecodeErrorCountsAsAlive ==
    [][ ( mode = "check" /\ Woke /\ ReadFailed(lastIn', {"decode"}) ) =>
          /\ Printed([event |-> "alive"])
          /\ pc' = "exited"
          /\ exitCode' = 0 ]_vars

\* a check run ended alive on a reply that could not be decoded
C23_Witness ==
    /\ mode = "check"
    /\ pc = "exited"
    /\ exitCode = 0
    /\ ReadFailed(lastIn, {"decode"})
    /\ lastIn.in.msg_type = "kernel_info_reply"
    /\ stdout = << EvAlive >>

(***************************************************************************)
(* C24                                                                     *)
(***************************************************************************)
\* the error messages of the three deadlined waits
TimeoutMessages ==
    { "Timed out waiting for Ark LSP comm response",
      "Timed out waiting for iopub idle",
      "Timed out waiting for kernel response" }

\* C24: a run of lsp, execute or check mode ends.  Its deadline is set once,
\* to the time the wait starts plus timeout_ms; no step of the wait moves it or
\* lets the clock pass it; and a wait that finds no time left ends the run
\* with its timeout error without reading (so at once when timeout_ms is 0).
C24_DeadlinedWaitsEnd ==
    /\ [][ /\ ( pc = "send" /\ pc' = "wait" ) => deadline' = now + timeout_ms
           /\ pc = "wait" =>
                 /\ deadline' = deadline
                 /\ now <= now'
                 /\ now' <= deadline
                 /\ now >= deadline =>
                       /\ steps' = steps
                       /\ pc' = "exited"
                       /\ exitCode' = 1
                       /\ EmittedOne
                       /\ Last(stdout').event = "error"
                       /\ Last(stdout').message \in TimeoutMessages ]_vars
    /\ <>(pc = "exited")

\* a check run with timeout_ms = 0 timed out without a single read, its
\* request sent
C24_Witness ==
    /\ mode = "check"
    /\ timeout_ms = 0
    /\ pc = "exited"
    /\ exitCode = 1
    /\ steps = 0
    /\ Len(shellSent) = 1
    /\ stdout = << EvError("Timed out waiting for kernel response") >>

(***************************************************************************)
(* C27                                                                     *)
(***************************************************************************)
\* the comms C27 has watch mode open, in order, and the events announcing them
StartupTargets ==
    << "positron.help", "positron.ui", "positron.variables", "positron.dataExplorer" >>
StartupEvents ==
    << "help_comm_open", "ui_comm_open", "variables_comm_open",
       "data_explorer_comm_open" >>

\* how many of the start-up comm_opens have been sent
StartupSent == IF Len(shellSent) < 4 THEN Len(shellSent) ELSE 4

\* C27: in watch mode the first four messages on shell are comm_opens for help,
\* ui, variables and dataExplorer, in that order, with pairwise distinct
\* comm_ids; the first lines of stdout are their events, one per comm_open sent
\* and carrying its comm_id; nothing is read from stdin or the kernel before
\* all four are out; and a run with fewer than four sent and no further one to
\* come has ended with an error right after the last event.
C27_StartupCommOpens ==
    mode = "watch" =>
        /\ \A i \in 1..StartupSent :
              /\ shellSent[i].type = "comm_open"
              /\ shellSent[i].target_name = StartupTargets[i]
              /\ Len(stdout) >= i
              /\ stdout[i] = [event |-> StartupEvents[i],
                              comm_id |-> shellSent[i].comm_id,
                              target_name |-> StartupTargets[i]]
        /\ \A i, j \in 1..StartupSent :
              i # j => shellSent[i].comm_id # shellSent[j].comm_id
        /\ StartupSent < 4 =>
              /\ steps = 0
              /\ lastIn.src \in {"none", "startup"}
              /\ pc # "loop"
              /\ IF pc = "exited"
                 THEN /\ exitCode = 1
                      /\ Len(stdout) = StartupSent + 1
                      /\ Last(stdout).event = "error"
                 ELSE Len(stdout) = StartupSent

\* the loop was entered with the four comms opened and announced
C27_Witness ==
    /\ mode = "watch"
    /\ pc = "loop"
    /\ steps = 0
    /\ Len(shellSent) = 4
    /\ Len(stdout) = 4
    /\ stdout[4].event = "data_explorer_comm_open"
    /\ stdout[4].comm_id = shellSent[4].comm_id
    /\ Cardinality({ shellSent[i].comm_id : i \in 1..4 }) = 4

(***************************************************************************)
(* C25                                                                     *)
(***************************************************************************)
\* the positions of the error events printed so far
ErrorEvents == { i \in 1..Len(stdout) : stdout[i].event = "error" }

\* C25: a run that has ended has exit code 1 and exactly one error event, its
\* last line, carrying a message, or exit code 0 and no error event; a run
\* that has not ended has printed no error event.
C25_OneErrorEventIffFailed ==
    IF pc = "exited"
    THEN \/ /\ exitCode = 1
            /\ ErrorEvents = {Len(stdout)}
            /\ stdout # <<>>
            /\ DOMAIN Last(stdout) = {"event", "message"}
            /\ Last(stdout).message # ""
         \/ /\ exitCode = 0
            /\ ErrorEvents = {}
    ELSE exitCode = -1 /\ ErrorEvents = {}

\* a watch run that had printed events ended on an IOPub read failure, the
\* error as its last line
C25_Witness ==
    /\ mode = "watch"
    /\ pc = "exited"
    /\ exitCode = 1
    /\ Len(stdout) >= 6
    /\ ErrorEvents = {Len(stdout)}
    /\ lastIn.src = "iopub"
    /\ ~lastIn.in.ok

(***************************************************************************)
(* C26                                                                     *)
(***************************************************************************)
\* the request each one-shot mode sends
RequestOf ==
    [lsp |-> "comm_open", execute |-> "execute_request",
     check |-> "kernel_info_request"]

\* C26: in lsp, execute and check mode at most one message is ever sent on
\* shell, the mode's request; nothing is sent before the wait starts other
\* than it, and nothing while or after waiting.
C26_NoRetry ==
    mode \in {"lsp", "execute", "check"} =>
        /\ Len(shellSent) <= 1
        /\ shellSent # <<>> => shellSent[1].type = RequestOf[mode]
        /\ pc = "wait" => Len(shellSent) = 1

\* an lsp run timed out after passing over three messages, one request sent
C26_Witness ==
    /\ mode = "lsp"
    /\ pc = "exited"
    /\ exitCode = 1
    /\ steps = 3
    /\ Len(shellSent) = 1
    /\ Last(stdout) = EvError("Timed out waiting for Ark LSP comm response")

(***************************************************************************)
(* C28                                                                     *)
(***************************************************************************)
\* the positions of the comm_closes among the messages sent
CommCloses(sent) == { i \in 1..Len(sent) : sent[i].type = "comm_close" }

\* C28: a comm_close goes out on shell only in the step that handles a stdin
\* comm_close command, with that command's comm_id; a comm_close event is
\* printed only in the step that handles a comm_close read from the kernel,
\* with its comm_id; and a step that ends the run sends no comm_close.
C28_NeverClosesOnItsOwn ==
    [][ /\ ( Len(shellSent') > Len(shellSent)
             /\ Last(shellSent').type = "comm_close" ) =>
               /\ mode = "watch"
               /\ lastIn'.src = "stdin"
               /\ lastIn'.in.command = JStr("comm_close")
               /\ lastIn'.in.comm_id = JStr(Last(shellSent').comm_id)
        /\ ( Len(stdout') > Len(stdout)
             /\ Last(stdout').event = "comm_close" ) =>
               /\ mode = "watch"
               /\ lastIn'.src = "iopub"
               /\ lastIn'.in.ok
               /\ lastIn'.in.msg.type = "comm_close"
               /\ lastIn'.in.msg.comm_id = Last(stdout').comm_id
        /\ ( pc # "exited" /\ pc' = "exited" ) =>
               CommCloses(shellSent') = CommCloses(shellSent) ]_vars

\* a comm_close command was forwarded after the kernel had closed a comm, and
\* then EOF ended the run without a further message on shell
C28_Witness ==
    /\ mode = "watch"
    /\ pc = "exited"
    /\ lastIn.src = "stdin_eof"
    /\ Len(shellSent) = 5
    /\ Last(shellSent).type = "comm_close"
    /\ Last(shellSent).comm_id = "c1"
    /\ Last(stdout) = [event |-> "comm_close", comm_id |-> "c1"]

(***************************************************************************)
(* C29                                                                     *)
(***************************************************************************)
\* seq2 is seq1, or seq1 with one element added at its end
ExtendsAtEnd(seq1, seq2) ==
    \/ seq2 = seq1
    \/ Len(seq2) = Len(seq1) + 1 /\ SubSeq(seq2, 1, Len(seq1)) = seq1

\* C29: every step leaves the lines already printed and the messages already
\* sent where they are and adds at most one of each, at the end; in the watch
\* loop the event added is that of the kernel message the step has read and
\* the message added is the stdin command the step has read.  So events
\* follow the order of arrival on each socket and forwarded commands the
\* order of the lines.
C29_HandledInArrivalOrder ==
    [][ /\ ExtendsAtEnd(stdout, stdout')
        /\ ExtendsAtEnd(shellSent, shellSent')
        /\ ( mode = "watch" /\ pc = "loop" /\ stdout' # stdout /\ pc' = "loop" ) =>
              /\ lastIn'.src \in {"iopub", "shell"}
              /\ lastIn'.in.ok
              /\ shellSent' = shellSent
              /\ LET message == lastIn'.in.msg
                     event == Last(stdout')
                 IN  /\ event.event \in TagsOf(message.type)
                     /\ "comm_id" \in DOMAIN event => event.comm_id = message.comm_id
                     /\ "status" \in DOMAIN event =>
                           event.status \in {message.state, "unknown"}
                     /\ "display_id" \in DOMAIN event =>
                           event.display_id = message.display_id
        /\ ( mode = "watch" /\ pc = "loop" /\ shellSent' # shellSent ) =>
              /\ lastIn'.src = "stdin"
              /\ stdout' = stdout
              /\ lastIn'.in.command = JStr(Last(shellSent').type)
              /\ lastIn'.in.comm_id = JStr(Last(shellSent').comm_id) ]_vars

\* two IOPub messages were announced in the order they were read, after a
\* stdin command had been forwarded
C29_Witness ==
    /\ mode = "watch"
    /\ pc = "loop"
    /\ steps = 3
    /\ Len(shellSent) = 5
    /\ shellSent[5].type = "comm_msg"
    /\ Len(stdout) = 6
    /\ stdout[5] = EvStatus("busy")
    /\ stdout[6].event = "comm_msg"
    /\ lastIn.src = "iopub"
    /\ lastIn.in.msg.type = "comm_msg"

(***************************************************************************)
(* C33                                                                     *)
(***************************************************************************)
\* the stdin line is one of the three comm commands with its required fields
CommCommandLine(line) ==
    /\ ~BadLine(line)
    /\ line.command.s \in {"comm_msg", "comm_open", "comm_close"}

\* the shell message a comm command line asks for, with header.msg_id = msg_id
MessageOf(line, msg_id) ==
    [type |-> line.command.s,
     msg_id |-> msg_id,
     comm_id |-> line.comm_id.s,
     target_name |-> IF line.command.s = "comm_open" THEN line.target_name.s ELSE "",
     data |-> IF line.data.t = "obj" THEN line.data.o ELSE EmptyData]

\* C33: a stdin comm command with its required fields builds exactly one
\* message and sends it once on shell: a message of the command's type with
\* the line's comm_id (and target_name for comm_open) and the line's data,
\* the empty object for a comm_close whose data is not an object; when the
\* send fails nothing is sent and no second attempt is made.
C33_OneMessagePerCommand ==
    [][ ( mode = "watch" /\ pc = "loop" /\ Woke
          /\ lastIn'.src = "stdin" /\ CommCommandLine(lastIn'.in) )
        => ( /\ nextUuid' = nextUuid + 1
             /\ shellSent' = IF lastIn'.send_ok
                             THEN Append(shellSent, MessageOf(lastIn'.in, nextUuid))
                             ELSE shellSent ) ]_vars

\* a comm_close line without data was sent with the empty data object
C33_Witness ==
    /\ mode = "watch"
    /\ lastIn.src = "stdin"
    /\ lastIn.in.command = JStr("comm_close")
    /\ lastIn.in.data = Absent
    /\ lastIn.in.comm_id = JStr("c1")
    /\ lastIn.send_ok
    /\ Last(shellSent).type = "comm_close"
    /\ Last(shellSent).comm_id = "c1"
    /\ Last(shellSent).data = EmptyData

(***************************************************************************)
(* C37                                                                     *)
(***************************************************************************)
\* C37: when the shell send of a forwarded comm_msg fails the pending table is
\* left unchanged, and the msg_ids ever entered into the table are msg_ids of
\* comm_msgs that were sent: no entry exists for a failed send, so no reply
\* can be stamped from one.
C37_RecordedOnlyWhenSent ==
    [][ /\ ( mode = "watch" /\ Woke /\ lastIn'.src = "stdin"
             /\ CommCommandLine(lastIn'.in) /\ ~lastIn'.send_ok )
           => ( /\ pending_comm_ids' = pending_comm_ids
                /\ nextUuid \notin everPending' )
        /\ everPending' \subseteq
              { x.msg_id : x \in { y \in Range(shellSent') : y.type = "comm_msg" } } ]_vars

\* the send of a comm_msg carrying a request id failed while another request
\* was pending: the table still holds that one entry only
C37_Witness ==
    /\ mode = "watch"
    /\ lastIn.src = "stdin"
    /\ lastIn.in.command = JStr("comm_msg")
    /\ CommCommandLine(lastIn.in)
    /\ HasId(lastIn.in.data.o)
    /\ ~lastIn.send_ok
    /\ Cardinality(DOMAIN pending_comm_ids) = 1
    /\ nextUuid - 1 \notin DOMAIN pending_comm_ids

(***************************************************************************)
(* C38                                                                     *)
(***************************************************************************)
\* an inbound comm_msg naming m as its parent was handled before, on IOPub or
\* on shell
RepliedBefore(m) == \E i \in 1..Len(replies) : replies[i].parent = m

\* C38: of the inbound comm_msgs naming one forwarded request as their parent,
\* whichever socket each came from, the one handled first takes the pending
\* entry away and every later one is emitted with its data as received (no id
\* added) and leaves the table as it is: at most one event is stamped.
C38_StampedAtMostOnce ==
    [][ \A m \in SentCommMsgIds :
          ( Woke /\ ReplyTo(lastIn', m) )
          => ( /\ EmittedOne
               /\ Last(stdout').comm_id = lastIn'.in.msg.comm_id
               /\ IF RepliedBefore(m)
                  THEN /\ Last(stdout').data = lastIn'.in.msg.data
                       /\ m \notin DOMAIN pending_comm_ids
                       /\ pending_comm_ids' = pending_comm_ids
                  ELSE m \notin DOMAIN pending_comm_ids' ) ]_vars

\* a reply read from IOPub (a show_html_file event, which shell never gives)
\* was stamped with the request id, then a reply to the same request read
\* from shell was emitted without an id
C38_Witness ==
    /\ mode = "watch"
    /\ lastIn.src = "shell"
    /\ \E m \in SentCommMsgIds :
          /\ ReplyTo(lastIn, m)
          /\ Count([i \in 1..Len(replies) |-> replies[i].parent], m) = 2
          /\ Get(SentData(m), "id") = JStr("r7")
          /\ stdout[Len(stdout) - 1].event = "show_html_file"
          /\ Get(stdout[Len(stdout) - 1].data, "id") = JStr("r7")
    /\ ~HasId(lastIn.in.msg.data)
    /\ Last(stdout).event = "comm_msg"
    /\ Last(stdout).data = lastIn.in.msg.data

(***************************************************************************)
(* C39                                                                     *)
(***************************************************************************)
\* C39: the wake that sends a comm_msg whose data.id is a string or a number
\* also enters its pending entry and handles no IOPub or shell message (it
\* prints nothing and removes nothing); and whenever an inbound comm_msg
\* naming such a request as parent is handled, the entry had been entered.
C39_SendAndRecordInOneWake ==
    [][ /\ \A m \in SentCommMsgIds' \ SentCommMsgIds :
             Get(SentData(m)', "id").t \in {"str", "num"}
             => ( /\ Woke
                  /\ lastIn'.src = "stdin"
                  /\ m \in DOMAIN pending_comm_ids'
                  /\ pending_comm_ids'[m] = IdText(Get(SentData(m)', "id"))
                  /\ UNCHANGED <<stdout, replies, removals>> )
        /\ \A m \in SentCommMsgIds :
             ( /\ Get(SentData(m), "id").t \in {"str", "num"}
               /\ Woke
               /\ ReplyTo(lastIn', m) )
             => m \in everPending ]_vars

\* the wake right after the one that forwarded a request handled its reply and
\* found the entry: the reply was stamped
C39_Witness ==
    /\ mode = "watch"
    /\ steps = 2
    /\ \E m \in SentCommMsgIds :
          /\ Get(SentData(m), "id") = JNum(7)
          /\ ReplyTo(lastIn, m)
          /\ ~HasId(lastIn.in.msg.data)
          /\ removals = <<m>>
          /\ Get(Last(stdout).data, "id") = JStr("7")

(***************************************************************************)
(* C40                                                                     *)
(***************************************************************************)
\* C40: an inbound comm_msg, from IOPub or shell, that has no id and has no
\* parent_header or one whose msg_id is not in the pending table, is emitted
\* with its data as received (no id added), and the table is left as it is.
C40_UnmatchedPassesThrough ==
    [][ ( /\ mode = "watch" /\ Woke
          /\ InboundCommMsg(lastIn')
          /\ ~HasId(lastIn'.in.msg.data)
          /\ \/ lastIn'.in.msg.parent = None
             \/ lastIn'.in.msg.parent[1] \notin DOMAIN pending_comm_ids )
        => ( /\ EmittedOne
             /\ Last(stdout').comm_id = lastIn'.in.msg.comm_id
             /\ Last(stdout').data = lastIn'.in.msg.data
             /\ ~HasId(Last(stdout').data)
             /\ pending_comm_ids' = pending_comm_ids ) ]_vars

\* while a request was pending, a comm_msg without an id whose parent is some
\* other client's request was emitted as received and the entry stayed
C40_Witness ==
    /\ mode = "watch"
    /\ InboundCommMsg(lastIn)
    /\ lastIn.in.msg.parent = Some(0)
    /\ ~HasId(lastIn.in.msg.data)
    /\ Last(stdout).data = lastIn.in.msg.data
    /\ pending_comm_ids # EmptyMap
    /\ removals = <<>>

(***************************************************************************)
(* Vocabulary of the port properties                                       *)
(***************************************************************************)
\* the function-level run applied fn and the function has returned
Returned(fn) == call.fn = fn /\ ret # None

\* the strings among the model's inputs that are the decimal text of a u16,
\* each with its number
U16Texts == { <<"0", 0>>, <<"9090", 9090>>, <<"65535", 65535>>, <<"+80", 80>>,
              <<"0080", 80>> }

\* value is a JSON integer in 0..65535 or the decimal text of a u16 / its number
ValidPort(value) ==
    \/ value.t = "num" /\ value.n >= 0 /\ value.n <= 65535
    \/ value.t = "str" /\ \E e \in U16Texts : e[1] = value.s
PortNumber(value) ==
    IF value.t = "num" THEN value.n
    ELSE (CHOOSE e \in U16Texts : e[1] = value.s)[2]

\* the values of all the "port" fields anywhere inside a JSON value
RECURSIVE PortFields(_)
PortFields(value) ==
    CASE value.t = "obj" ->
            (IF is_some(Get(value.o, "port")) THEN {Get(value.o, "port")} ELSE {})
            \cup UNION { PortFields(value.o[i].v) : i \in 1..Len(value.o) }
      [] value.t = "arr" -> UNION { PortFields(value.a[i]) : i \in 1..Len(value.a) }
      [] OTHER -> {}
ValidPortsIn(value) == { PortNumber(v) : v \in { w \in PortFields(value) : ValidPort(w) } }

\* The "port" fields of a JSON value in the order of a depth-first walk that
\* looks at an object's own port before its values and takes array elements by
\* index; an object's values are taken in insertion order when `inserted`, in
\* the order Map::values() gives them otherwise.
RECURSIVE Visit(_, _), VisitAll(_, _)
Visit(value, inserted) ==
    CASE value.t = "obj" ->
            << Get(value.o, "port") >>
            \o VisitAll(IF inserted
                        THEN [i \in 1..Len(value.o) |-> value.o[i].v]
                        ELSE values(value.o), inserted)
      [] value.t = "arr" -> VisitAll(value.a, inserted)
      [] OTHER -> << >>
VisitAll(nested, inserted) ==
    IF nested = << >> THEN << >>
    ELSE Visit(Head(nested), inserted) \o VisitAll(Tail(nested), inserted)

\* the number of the first valid port of a sequence of values, if any
FirstValid(seq) ==
    LET valid == SelectSeq(seq, ValidPort)
    IN  IF valid = << >> THEN None ELSE Some(PortNumber(Head(valid)))

(***************************************************************************)
(* C31                                                                     *)
(***************************************************************************)
\* C31: when data.params is an object holding a valid port the locator's
\* result is the first valid port of the walk of params, whatever ports
\* content and the root hold; otherwise, when data.content is an object
\* holding a valid port, it is the first valid port of the walk of content;
\* otherwise it is the first valid port of the walk from the root of data.
C31_ParamsContentRoot ==
    Returned("extract_comm_port") =>
        LET params == Get(call.data, "params")
            content == Get(call.data, "content")
        IN  IF params.t = "obj" /\ ValidPortsIn(params) # {}
            THEN /\ ret[1] = FirstValid(Visit(params, FALSE))
                 /\ ret[1][1] \in ValidPortsIn(params)
            ELSE IF content.t = "obj" /\ ValidPortsIn(content) # {}
            THEN /\ ret[1] = FirstValid(Visit(content, FALSE))
                 /\ ret[1][1] \in ValidPortsIn(content)
            ELSE ret[1] = FirstValid(Visit(JObj(call.data), FALSE))

\* the root has a valid port of its own and content holds one, both inserted
\* before params: the port of params was returned
C31_Witness ==
    /\ Returned("extract_comm_port")
    /\ call.data = << Pair("port", JNum(8787)), Pair("content", Leaf(JNum(1))),
                      Pair("params", Leaf(JStr("9090"))) >>
    /\ ret = Some(Some(9090))

(***************************************************************************)
(* C36                                                                     *)
(***************************************************************************)
\* C36, as stated: find_port returns an object's own valid port before
\* anything nested in it, and otherwise the first valid port of the
\* depth-first walk that takes an object's values in insertion order and
\* array elements in index order.
C36_AsStated ==
    Returned("find_port") =>
        /\ ( call.value.t = "obj" /\ ValidPort(Get(call.value.o, "port")) )
             => ret[1] = Some(PortNumber(Get(call.value.o, "port")))
        /\ ret[1] = FirstValid(Visit(call.value, TRUE))

\* C36, amended: find_port returns an object's own valid port before anything
\* nested in it, and otherwise the first valid port of the depth-first walk
\* that takes an object's values in the order Map::values() gives them
\* (insertion order only on a build with preserve_order, key order otherwise)
\* and array elements in index order.
C36_DepthFirstInMapOrder ==
    Returned("find_port") =>
        /\ ( call.value.t = "obj" /\ ValidPort(Get(call.value.o, "port")) )
             => ret[1] = Some(PortNumber(Get(call.value.o, "port")))
        /\ ret[1] = FirstValid(Visit(call.value, FALSE))
        /\ preserve_order => ret[1] = FirstValid(Visit(call.value, TRUE))

\* on a build whose Map is ordered by key, the object {"b": .., "a": ..} gave
\* the port under "a", and the port three objects deep under the first field
\* was returned before the port of the second field
C36_Witness ==
    /\ Returned("find_port")
    /\ ~preserve_order
    /\ call.value =
          JObj(<< Pair("b", JObj(<< Pair("b", Leaf(JNum(5))), Pair("a", Leaf(JNum(6))) >>)),
                  Pair("a", JObj(<< Pair("a", JObj(<< Pair("b", Leaf(JNum(7))) >>)) >>)) >>)
    /\ ret = Some(Some(7))

(***************************************************************************)
(* C32                                                                     *)
(***************************************************************************)
\* C32: parse_port_value accepts exactly a JSON integer in 0..65535 and a
\* string that is the decimal text of a u16, giving that number; a boolean,
\* null, object, array, negative, fractional or out-of-range value, or no
\* value, gives none.  The locator returns a port, one of the valid port
\* fields, when data holds a valid port field anywhere, and none when no port
\* field of data is valid.
C32_ValidPortValues ==
    /\ Returned("parse_port_value") =>
          ret[1] = IF ValidPort(call.value) THEN Some(PortNumber(call.value)) ELSE None
    /\ Returned("extract_comm_port") =>
          IF ValidPortsIn(JObj(call.data)) = {}
          THEN ret[1] = None
          ELSE IsSome(ret[1]) /\ ret[1][1] \in ValidPortsIn(JObj(call.data))
    /\ Returned("find_port") =>
          IF ValidPortsIn(call.value) = {}
          THEN ret[1] = None
          ELSE IsSome(ret[1]) /\ ret[1][1] \in ValidPortsIn(call.value)

\* the locator passed over a boolean port and a number that is no field named
\* port, and returned the textual port nested under a field of the root
C32_Witness ==
    /\ Returned("extract_comm_port")
    /\ call.data = << Pair("content", Leaf(JBool(TRUE))), Pair("b", JNum(8787)),
                      Pair("a", Leaf(JStr("9090"))) >>
    /\ ret = Some(Some(9090))

(***************************************************************************)
(* C35                                                                     *)
(***************************************************************************)
\* the string and number ids among the model's inputs, each with its text
IdTexts ==
    { <<JStr("r7"), "r7">>, <<JStr("7"), "7">>, <<JStr(""), "">>, <<JNum(7), "7">>,
      <<JNum(0), "0">>, <<JNum(-3), "-3">>, <<JFloat("7.5"), "7.5">> }
StringOrNumber(id) == id.t \in {"str", "num", "float"}
TextOf(id) == (CHOOSE e \in IdTexts : e[1] = id)[2]

\* C35: extract_request_id gives the text of data.id when it is a string (as
\* is) or a number (its decimal text) and nothing for a boolean, null, object
\* or array id or no id; forwarding the comm_msg enters a pending entry
\* exactly in the former case; and a reply without an id that names the
\* request as parent is stamped with that text as a JSON string, also when
\* the request's id was a number, any other reply getting no id.
C35_RequestIdKinds ==
    /\ Returned("extract_request_id") =>
          LET id == Get(call.data, "id")
          IN  /\ StringOrNumber(id) <=> \E e \in IdTexts : e[1] = id
              /\ ret[1] = IF StringOrNumber(id) THEN Some(TextOf(id)) ELSE None
    /\ Returned("attach_comm_reply_id") =>
          LET id == Get(call.request, "id")
              recorded == StringOrNumber(id)
          IN  /\ call.pending = IF recorded THEN MapInsert(EmptyMap, 1, TextOf(id))
                                ELSE EmptyMap
              /\ IF recorded /\ call.parent = Some(1) /\ ~HasId(call.data)
                 THEN Get(ret[1].data, "id") = JStr(TextOf(id))
                 ELSE ret[1].data = call.data

\* the request's id was the number 7: the reply naming it as parent was
\* stamped with the string "7"
C35_Witness ==
    /\ Returned("attach_comm_reply_id")
    /\ Get(call.request, "id") = JNum(7)
    /\ call.parent = Some(1)
    /\ ~HasId(call.data)
    /\ Get(ret[1].data, "id") = JStr("7")
    /\ ret[1].pending = EmptyMap

(***************************************************************************)
(* C34                                                                     *)
(***************************************************************************)
\* the flags that take the argument after them as their value
ValueFlags == {"--connection-file", "--ip-address", "--timeout-ms", "--code"}

\* argument i of argv is the value of the flag before it (and so is no flag)
RECURSIVE IsValue(_, _)
IsValue(argv, i) ==
    i > 1 /\ argv[i - 1] \in ValueFlags /\ ~IsValue(argv, i - 1)

\* the places where one of `flags` stands as a flag
Occurrences(argv, flags) ==
    { i \in 1..Len(argv) : argv[i] \in flags /\ ~IsValue(argv, i) }
Latest(places) == CHOOSE i \in places : \A j \in places : j <= i

\* the value after the last occurrence of a flag: none when the flag does not
\* occur or nothing follows its last occurrence
LastValue(argv, flag) ==
    LET places == Occurrences(argv, {flag})
    IN  IF places = {} \/ Latest(places) = Len(argv) THEN None
        ELSE Some(argv[Latest(places) + 1])

\* the timeout of the last --timeout-ms that has a value: the value's number,
\* or 15000 when there is none or the value is no number
LastTimeout(argv) ==
    LET places == { i \in Occurrences(argv, {"--timeout-ms"}) : i < Len(argv) }
    IN  IF places = {} THEN 15000
        ELSE IF argv[Latest(places) + 1] = "5000" THEN 5000
        ELSE 15000

\* the mode of the last mode flag, Lsp when there is none
LastMode(argv) ==
    LET places == Occurrences(argv, {"--execute", "--watch-plot", "--check"})
    IN  IF places = {} THEN "lsp"
        ELSE CASE argv[Latest(places)] = "--execute" -> "execute"
               [] argv[Latest(places)] = "--watch-plot" -> "watch"
               [] OTHER -> "check"

\* C34: unless -h or --help asks for the usage, parse_args_from gives the mode
\* of the last mode flag (Lsp without one), the timeout of the last
\* --timeout-ms (15000 without one) and, for each flag with a value, the value
\* of its last occurrence; it returns the error "--connection-file is
\* required" without a connection file, "--code is required for --execute"
\* in Execute mode without a code and "--ip-address is required" in Lsp mode
\* without an address, and the arguments otherwise.
C34_ParseArgs ==
    ( Returned("parse_args_from") /\ Occurrences(call.args, {"-h", "--help"}) = {} ) =>
        LET argv == call.args
            connection_file == LastValue(argv, "--connection-file")
            ip_address == LastValue(argv, "--ip-address")
            code == LastValue(argv, "--code")
            last_mode == LastMode(argv)
        IN  IF connection_file = None
            THEN ret[1] = ArgsErr("--connection-file is required")
            ELSE IF last_mode = "execute" /\ code = None
            THEN ret[1] = ArgsErr("--code is required for --execute")
            ELSE IF last_mode = "lsp" /\ ip_address = None
            THEN ret[1] = ArgsErr("--ip-address is required")
            ELSE ret[1] = ArgsOk(
                    [connection_file |-> connection_file[1],
                     ip_address |-> ip_address,
                     timeout_ms |-> LastTimeout(argv),
                     mode |-> last_mode,
                     code |-> code,
                     code_is_base64 |-> Occurrences(argv, {"--code-base64"}) # {},
                     wait_for_idle |-> Occurrences(argv, {"--wait-for-idle"}) # {}])

\* --connection-file was given twice and no mode or timeout flag at all: the
\* second file, mode Lsp and 15000 ms came back
C34_Witness ==
    /\ Returned("parse_args_from")
    /\ call.args = << "--connection-file", "conn.json", "--connection-file",
                      "other.json", "--ip-address", "127.0.0.1" >>
    /\ ret[1].kind = "ok"
    /\ ret[1].args.connection_file = "other.json"
    /\ ret[1].args.mode = "lsp"
    /\ ret[1].args.timeout_ms = 15000

=============================================================================
